---- MODULE Spec2Model ----
(***************************************************************************)
(* A model of the astral glyph renderer: the structure-of-arrays output    *)
(* buffer, the adaptive quality controller, the glyph cache in front of    *)
(* the glyph database, the tile dispatcher with its worker pool, and the   *)
(* single-threaded frame orchestrator with its temporal cache.             *)
(*                                                                         *)
(* Numbers.  JavaScript numbers are modelled by integers in a fixed unit:  *)
(*   - brightness: one unit is 2^-26, so a double in [0,1] that float32    *)
(*     cannot hold exactly (float32 has a 24 bit significand) exists;      *)
(*   - glyph features and query parameters: one unit is 1/1000;            *)
(*   - resolution scale: one unit is 0.01;                                 *)
(*   - frame times: one unit is 1 ms;                                      *)
(*   - camera pose components: one unit is 0.0005.                         *)
(***************************************************************************)
EXTENDS Integers, Sequences, FiniteSets, TLC

VARIABLES
    frameBuffer,    \* FrameBuffer: the full-size output buffer
    fbCall,         \* history: the last FrameBuffer call and the buffer before it
    adaptive,       \* AdaptiveQuality: targetFPS and currentScale
    aqCall,         \* history: the last adjust call, and the runs of slow/fast frames
    glyphs,         \* GlyphDB.glyphs: the loaded records, sorted by normalized coverage
    glyphCache,     \* GlyphCache: cache table, hits, misses
    gcLog,          \* history: the select calls since construction or clearCache
    dbQueries,      \* history: per key, the queryBest calls made by select
    tileFrame,      \* tile mode: the number of the frame last dispatched (0: none)
    tilePhase,      \* tile mode: "idle", "rendering" (renderFrame pending), "presented"
    workerInbox,    \* per worker: the render_tile messages posted and not yet handled
    workerOutbox,   \* per worker: the tile_result messages posted and not yet received
    tileListeners,  \* per worker: the once('message') listeners registered, in order
    tilePending,    \* the tiles of the frame whose dispatchTile promise is unresolved
    tileWritten,    \* history: the results written since the frame's dispatch
    tileSeen,       \* history: per frame, the buffer an earlier run presented
    scene,          \* RenderLoop.scene: time, camera, entities, lights, environment
    loopOptions,    \* RenderLoop.useTemporalReuse, useAdaptiveQuality
    temporal,       \* RenderLoop.temporal, the TemporalCache
    smallBuffer,    \* RenderLoop.smallBuffer: None, or the reduced-size FrameBuffer
    baseIntensities,\* Animator's map from a light to its base intensity
    frameCount,     \* RenderLoop.frameCount
    frameLog,       \* history: what the last single-threaded frame did
    layout,         \* tile layout alone: an output size, its tiles, the buffer written
    tcCall,         \* history: the last TemporalCache call, the cache before it
    gcWarm,         \* history: None until warmup is called, then the number of selects logged before it
    workerPool,     \* render workers: per worker its glyph cache or None, and the last result
    world,          \* World: the entities and the SpatialGrid built over them
    worldCall,      \* history: the last World.sample or raymarch call and its result
    dbCalls,        \* history: the last queryBest calls made on the GlyphDB directly
    lightCall,      \* history: the last computeLighting call and its result
    inputState,     \* InputState: the movement flags the KeyboardListener writes
    keysHeld,       \* environment: the key codes physically held down
    pointerLockElement  \* environment: document.pointerLockElement, "target" or "none"

fbVars == <<frameBuffer, fbCall>>
aqVars == <<adaptive, aqCall>>
gcVars == <<glyphs, glyphCache, gcLog, dbQueries>>
tileVars == <<tileFrame, tilePhase, workerInbox, workerOutbox, tileListeners,
              tilePending, tileWritten, tileSeen>>
renderVars == <<scene, loopOptions, temporal, smallBuffer, baseIntensities,
                frameCount, frameLog>>
unitVars == <<layout, tcCall, gcWarm, workerPool>>
worldVars == <<world, worldCall>>
dbVars == <<dbCalls>>
ioVars == <<lightCall, inputState, keysHeld, pointerLockElement>>
vars == <<frameBuffer, fbCall, adaptive, aqCall, glyphs, glyphCache, gcLog, dbQueries,
          tileFrame, tilePhase, workerInbox, workerOutbox, tileListeners,
          tilePending, tileWritten, tileSeen,
          scene, loopOptions, temporal, smallBuffer, baseIntensities,
          frameCount, frameLog, layout, tcCall, gcWarm, workerPool,
          world, worldCall, dbCalls,
          lightCall, inputState, keysHeld, pointerLockElement>>

Min(a, b) == IF a < b THEN a ELSE b
Max(a, b) == IF a > b THEN a ELSE b
Abs(a) == IF a < 0 THEN -a ELSE a

(***************************************************************************)
(* FrameBuffer                                                             *)
(***************************************************************************)

\* Bounds of the FrameBuffer specification: the buffer is FBWidth x FBHeight.
FBWidth == 2
FBHeight == 1

SPACE == 32

\* One brightness unit is 2^-26; BrightnessOne is 1.0.
BrightnessOne == 2^26

\* Math.fround on [0,1]: the nearest float32 (24 bit significand), ties to even.
\* Below 0.25 the float32 spacing is at most 2^-26, so the grid value is exact;
\* in [0.25,0.5) the spacing is 2^-25 and in [0.5,1] it is 2^-24.
Fround(v) ==
    LET ulp == IF v < 2^24 THEN 1 ELSE IF v < 2^25 THEN 2 ELSE 4
        q == v \div ulp
        rem == v % ulp
    IN  IF 2 * rem < ulp THEN q * ulp
        ELSE IF 2 * rem > ulp THEN (q + 1) * ulp
        ELSE IF q % 2 = 0 THEN q * ulp ELSE (q + 1) * ulp

\* What a Uint8Array element holds after an integer is assigned to it.
ToUint8(v) == v % 256

\* What a Float32Array element holds after a number is assigned to it.
ToFloat32(v) == Fround(v)

\* new FrameBuffer(width, height): allocates the arrays, then clear().
NewFrameBuffer(width, height) ==
    LET Cells == 0 .. (width * height - 1)
    IN  [ width |-> width, height |-> height,
          chars |-> [i \in Cells |-> SPACE],
          colorR |-> [i \in Cells |-> 0],
          colorG |-> [i \in Cells |-> 0],
          colorB |-> [i \in Cells |-> 0],
          brightness |-> [i \in Cells |-> 0],
          dirty |-> [i \in Cells |-> 1] ]

\* Assignment to a typed array element: an index outside the array is ignored.
ArrayPut(arr, idx, v) == IF idx \in DOMAIN arr THEN [arr EXCEPT ![idx] = v] ELSE arr

\* A read of a typed array element: an index outside the array gives undefined,
\* modelled as -1 (no stored value is negative).
ArrayGet(arr, idx) == IF idx \in DOMAIN arr THEN arr[idx] ELSE -1

\* FrameBuffer.set: each argument is compared (!==) with the stored element,
\* and where they differ the argument is assigned, the typed array converting it.
FBSet(fb, x, y, char, r, g, b, brightness) ==
    LET idx == y * fb.width + x
        cChar == ArrayGet(fb.chars, idx) # char
        cR == ArrayGet(fb.colorR, idx) # r
        cG == ArrayGet(fb.colorG, idx) # g
        cB == ArrayGet(fb.colorB, idx) # b
        cBr == ArrayGet(fb.brightness, idx) # brightness
        changed == cChar \/ cR \/ cG \/ cB \/ cBr
    IN  [ fb EXCEPT
            !.chars = IF cChar THEN ArrayPut(@, idx, char) ELSE @,
            !.colorR = IF cR THEN ArrayPut(@, idx, ToUint8(r)) ELSE @,
            !.colorG = IF cG THEN ArrayPut(@, idx, ToUint8(g)) ELSE @,
            !.colorB = IF cB THEN ArrayPut(@, idx, ToUint8(b)) ELSE @,
            !.brightness = IF cBr THEN ArrayPut(@, idx, ToFloat32(brightness)) ELSE @,
            !.dirty = IF changed THEN ArrayPut(@, idx, 1) ELSE @ ]

\* FrameBuffer.get: the cell at (x, y).
FBGet(fb, x, y) ==
    LET idx == y * fb.width + x
    IN  [ char |-> ArrayGet(fb.chars, idx), r |-> ArrayGet(fb.colorR, idx),
          g |-> ArrayGet(fb.colorG, idx), b |-> ArrayGet(fb.colorB, idx),
          brightness |-> ArrayGet(fb.brightness, idx) ]

\* FrameBuffer.isDirty
FBIsDirty(fb, x, y) == ArrayGet(fb.dirty, y * fb.width + x) = 1

\* FrameBuffer.clearDirtyFlags
FBClearDirtyFlags(fb) == [fb EXCEPT !.dirty = [i \in DOMAIN fb.dirty |-> 0]]

\* The five stored values of every cell (everything but the dirty flags).
FBStored(fb) == [ chars |-> fb.chars, colorR |-> fb.colorR, colorG |-> fb.colorG,
                  colorB |-> fb.colorB, brightness |-> fb.brightness ]

\* Arguments of the set calls explored: code points, colour bytes, and three
\* brightness doubles: 0, 0.75 (a float32) and 0.75 + 2^-26 (not a float32).
FBChars == {SPACE, 65}
FBReds == {0, 255}
FBGreens == {128}
FBBlues == {0}
FBBrightnesses == {0, 3 * 2^24, 3 * 2^24 + 1}

NoCall == [op |-> "none"]

FrameBufferSet(x, y, char, r, g, b, brightness) ==
    /\ frameBuffer' = FBSet(frameBuffer, x, y, char, r, g, b, brightness)
    /\ fbCall' = [ op |-> "set", idx |-> y * frameBuffer.width + x,
                   before |-> frameBuffer ]
    /\ UNCHANGED <<aqVars, gcVars, tileVars, renderVars, unitVars, worldVars, dbVars, ioVars>>

FrameBufferClearDirtyFlags ==
    /\ frameBuffer' = FBClearDirtyFlags(frameBuffer)
    /\ fbCall' = [op |-> "clearDirtyFlags"]
    /\ UNCHANGED <<aqVars, gcVars, tileVars, renderVars, unitVars, worldVars, dbVars, ioVars>>

(***************************************************************************)
(* AdaptiveQuality                                                         *)
(***************************************************************************)

\* Bound: frame times passed to adjust are 0 .. MaxFrameTime milliseconds.
MaxFrameTime == 45
\* Bound: the runs of consecutive slow or fast frames are counted up to MaxRun.
MaxRun == 26

\* The scale is held in hundredths: minScale 0.5, maxScale 1.0, the steps 0.05
\* and 0.02 of adjust.
MinScale == 50
MaxScale == 100
ScaleDownStep == 5
ScaleUpStep == 2

DefaultTargetFPS == 30
TargetFPSChoices == {DefaultTargetFPS, 2 * DefaultTargetFPS}

\* lastFrameTime > targetFrameTime * 1.2, with targetFrameTime = 1000 / targetFPS.
IsSlowFrame(targetFPS, lastFrameTime) == lastFrameTime * targetFPS * 10 > 1000 * 12
\* lastFrameTime < targetFrameTime * 0.8
IsFastFrame(targetFPS, lastFrameTime) == lastFrameTime * targetFPS * 10 < 1000 * 8

\* new AdaptiveQuality(targetFPS)
NewAdaptiveQuality(targetFPS) == [targetFPS |-> targetFPS, currentScale |-> MaxScale]

\* Mutant of adjust: the slow branch forgets the floor (no Math.max).
AQAdjustNoFloor(aq, lastFrameTime) ==
    IF IsSlowFrame(aq.targetFPS, lastFrameTime)
    THEN [aq EXCEPT !.currentScale = @ - ScaleDownStep]
    ELSE IF IsFastFrame(aq.targetFPS, lastFrameTime)
    THEN [aq EXCEPT !.currentScale = Min(MaxScale, @ + ScaleUpStep)]
    ELSE aq

\* Mutant of adjust: the slow comparison is >= instead of >.
AQAdjustInclusive(aq, lastFrameTime) ==
    IF lastFrameTime * aq.targetFPS * 10 >= 1000 * 12
    THEN [aq EXCEPT !.currentScale = Max(MinScale, @ - ScaleDownStep)]
    ELSE IF IsFastFrame(aq.targetFPS, lastFrameTime)
    THEN [aq EXCEPT !.currentScale = Min(MaxScale, @ + ScaleUpStep)]
    ELSE aq

\* AdaptiveQuality.adjust
AQAdjust(aq, lastFrameTime) ==
    IF IsSlowFrame(aq.targetFPS, lastFrameTime)
    THEN [aq EXCEPT !.currentScale = Max(MinScale, @ - ScaleDownStep)]
    ELSE IF IsFastFrame(aq.targetFPS, lastFrameTime)
    THEN [aq EXCEPT !.currentScale = Min(MaxScale, @ + ScaleUpStep)]
    ELSE aq

\* The frame time as a share of the target frame time 1000 / targetFPS, for
\* the history: above 120 per cent, below 80 per cent, or between them.
Over120Percent(targetFPS, frameTime) == frameTime * targetFPS > 1200
Under80Percent(targetFPS, frameTime) == frameTime * targetFPS < 800

NoAdjust == [op |-> "none", frameTime |-> 0, targetFPS |-> DefaultTargetFPS,
             scaleBefore |-> MaxScale, slowRun |-> 0, fastRun |-> 0]

AdaptiveAdjust(lastFrameTime) ==
    /\ adaptive' = AQAdjust(adaptive, lastFrameTime)
    /\ aqCall' = [ op |-> "adjust", frameTime |-> lastFrameTime,
                   targetFPS |-> adaptive.targetFPS,
                   scaleBefore |-> adaptive.currentScale,
                   slowRun |-> IF Over120Percent(adaptive.targetFPS, lastFrameTime)
                               THEN Min(MaxRun, aqCall.slowRun + 1) ELSE 0,
                   fastRun |-> IF Under80Percent(adaptive.targetFPS, lastFrameTime)
                               THEN Min(MaxRun, aqCall.fastRun + 1) ELSE 0 ]
    /\ UNCHANGED <<fbVars, gcVars, tileVars, renderVars, unitVars, worldVars, dbVars, ioVars>>

AdaptiveSetTargetFPS(fps) ==
    /\ fps # adaptive.targetFPS
    /\ adaptive' = [adaptive EXCEPT !.targetFPS = fps]
    /\ aqCall' = [aqCall EXCEPT !.op = "setTargetFPS"]
    /\ UNCHANGED <<fbVars, gcVars, tileVars, renderVars, unitVars, worldVars, dbVars, ioVars>>

(***************************************************************************)
(* GlyphDB                                                                 *)
(***************************************************************************)

\* Bound: a loaded glyph set holds 1 .. MaxGlyphs records.
MaxGlyphs == 3

\* An optional number (targetRoundness?: number): <<>> is undefined, <<v>> is v.
None == <<>>
Some(v) == <<v>>
OrElse(opt, default) == IF opt = None THEN default ELSE opt[1]

\* Rows of the glyph feature store, features in thousandths (connected
\* components as a count).
GlyphRows ==
    { [codePoint |-> 46, coverage |-> 100, roundness |-> 900, complexity |-> 100,
       symmetryH |-> 1000, connectedComponents |-> 1],
      [codePoint |-> 35, coverage |-> 600, roundness |-> 200, complexity |-> 800,
       symmetryH |-> 500, connectedComponents |-> 1],
      [codePoint |-> 44, coverage |-> 100, roundness |-> 200, complexity |-> 300,
       symmetryH |-> 400, connectedComponents |-> 2] }

RECURSIVE SeqMin(_, _), SeqMax(_, _)
SeqMin(vals, i) == IF i = Len(vals) THEN vals[i] ELSE Min(vals[i], SeqMin(vals, i + 1))
SeqMax(vals, i) == IF i = Len(vals) THEN vals[i] ELSE Max(vals[i], SeqMax(vals, i + 1))

\* normalize(values): min-max normalisation, all 0 when the range is 0.
Normalize(vals) ==
    LET min == SeqMin(vals, 1)
        range == SeqMax(vals, 1) - min
    IN  [i \in 1 .. Len(vals) |->
            IF range = 0 THEN 0 ELSE ((vals[i] - min) * 1000) \div range]

\* Array.prototype.sort with (a, b) => a.normalizedCoverage - b.normalizedCoverage:
\* a stable sort, here by insertion.
RECURSIVE InsertByCoverage(_, _)
InsertByCoverage(sorted, g) ==
    IF sorted = <<>> THEN <<g>>
    ELSE IF sorted[Len(sorted)].normalizedCoverage <= g.normalizedCoverage
    THEN Append(sorted, g)
    ELSE Append(InsertByCoverage(SubSeq(sorted, 1, Len(sorted) - 1), g), sorted[Len(sorted)])

RECURSIVE SortByCoverage(_)
SortByCoverage(gs) ==
    IF gs = <<>> THEN <<>>
    ELSE InsertByCoverage(SortByCoverage(SubSeq(gs, 1, Len(gs) - 1)), gs[Len(gs)])

\* new GlyphDB(dbPath): parse the rows, normalise, sort by normalized coverage.
LoadGlyphDB(rows) ==
    LET cov == Normalize([i \in 1 .. Len(rows) |-> rows[i].coverage])
        cpx == Normalize([i \in 1 .. Len(rows) |-> rows[i].complexity])
        cmp == Normalize([i \in 1 .. Len(rows) |-> rows[i].connectedComponents])
    IN  SortByCoverage([i \in 1 .. Len(rows) |->
            [ codePoint |-> rows[i].codePoint, coverage |-> rows[i].coverage,
              roundness |-> rows[i].roundness, symmetryH |-> rows[i].symmetryH,
              normalizedCoverage |-> cov[i], normalizedComplexity |-> cpx[i],
              normalizedConnectedComponents |-> cmp[i] ]])

\* The stores a run can start from: the rows in any order, without repetition.
RowSeqs ==
    { rs \in UNION { [1 .. n -> GlyphRows] : n \in 1 .. Min(MaxGlyphs, Cardinality(GlyphRows)) } :
        \A i, j \in 1 .. Len(rs) : i # j => rs[i] # rs[j] }

\* The binary search of queryBest over 0-based indices: the first index whose
\* normalized coverage is not below lo, or the last index.
RECURSIVE QBSearch(_, _, _, _)
QBSearch(gs, lo, left, right) ==
    IF left < right
    THEN LET mid == (left + right) \div 2
         IN  IF gs[mid + 1].normalizedCoverage < lo
             THEN QBSearch(gs, lo, mid + 1, right)
             ELSE QBSearch(gs, lo, left, mid)
    ELSE left

\* The forward scan of queryBest: endIdx advances while coverage <= hi.
RECURSIVE QBScan(_, _, _)
QBScan(gs, hi, endIdx) ==
    IF endIdx < Len(gs) /\ gs[endIdx + 1].normalizedCoverage <= hi
    THEN QBScan(gs, hi, endIdx + 1)
    ELSE endIdx

\* A score whose 'round' and 'angular' biases are exchanged.
QBScoreStylesSwapped(g, params) ==
    8 * Abs(g.normalizedCoverage - params.targetCoverage)
    + (IF params.targetRoundness # None
       THEN 2 * Abs(g.roundness - params.targetRoundness[1]) ELSE 0)
    + (IF params.targetComplexity # None
       THEN 2 * Abs(g.normalizedComplexity - params.targetComplexity[1]) ELSE 0)
    + (CASE params.glyphStyle = "dense" -> 3 * (1000 - g.normalizedCoverage)
         [] params.glyphStyle = "light" -> 3 * g.normalizedCoverage
         [] params.glyphStyle = "round" -> 3 * g.roundness
         [] params.glyphStyle = "angular" -> 3 * (1000 - g.roundness)
         [] params.glyphStyle = "line" -> 3 * g.normalizedConnectedComponents
         [] params.glyphStyle = "noise" -> 3 * (1000 - g.normalizedComplexity)
         [] params.glyphStyle = "block" -> 3 * (1000 - g.symmetryH)
         [] OTHER -> 0)

\* A score without the coverage term.
QBScoreNoCoverage(g, params) ==
    (IF params.targetRoundness # None
     THEN 2 * Abs(g.roundness - params.targetRoundness[1]) ELSE 0)
    + (IF params.targetComplexity # None
       THEN 2 * Abs(g.normalizedComplexity - params.targetComplexity[1]) ELSE 0)

\* The score of one candidate, doubled so the weights 4.0, 1.0 and 1.5 are integers.
QBScore(g, params) ==
    8 * Abs(g.normalizedCoverage - params.targetCoverage)
    + (IF params.targetRoundness # None
       THEN 2 * Abs(g.roundness - params.targetRoundness[1]) ELSE 0)
    + (IF params.targetComplexity # None
       THEN 2 * Abs(g.normalizedComplexity - params.targetComplexity[1]) ELSE 0)
    + (CASE params.glyphStyle = "dense" -> 3 * (1000 - g.normalizedCoverage)
         [] params.glyphStyle = "light" -> 3 * g.normalizedCoverage
         [] params.glyphStyle = "round" -> 3 * (1000 - g.roundness)
         [] params.glyphStyle = "angular" -> 3 * g.roundness
         [] params.glyphStyle = "line" -> 3 * g.normalizedConnectedComponents
         [] params.glyphStyle = "noise" -> 3 * (1000 - g.normalizedComplexity)
         [] params.glyphStyle = "block" -> 3 * (1000 - g.symmetryH)
         [] OTHER -> 0)

\* A scoring loop that keeps the first candidate whatever the scores.
QBBestFirst(gs, params, i, last, best) == best

\* The scoring loop of queryBest over the 0-based candidate indices i .. last:
\* a candidate replaces the best only with a strictly lower score.
RECURSIVE QBBest(_, _, _, _, _)
QBBest(gs, params, i, last, best) ==
    IF i > last THEN best
    ELSE QBBest(gs, params, i + 1, last,
                IF QBScore(gs[i + 1], params) < QBScore(gs[best + 1], params)
                THEN i ELSE best)

\* GlyphDB.queryBest: the 1-based position in glyphs of the record returned (a
\* record is identified by its position: the array is never changed after load).
QueryBest(gs, params) ==
    LET lo == params.targetCoverage - 100
        hi == params.targetCoverage + 100
        startIdx == QBSearch(gs, lo, 0, Len(gs) - 1)
        endIdx == QBScan(gs, hi, startIdx)
    IN  IF endIdx > startIdx
        THEN QBBest(gs, params, startIdx, endIdx - 1, startIdx) + 1
        ELSE Min(Max(startIdx, 0), Len(gs) - 1) + 1

(***************************************************************************)
(* GlyphCache                                                              *)
(***************************************************************************)

\* Bound: at most MaxSelects select calls are made between two clearCache calls.
MaxSelects == 3

BRIGHTNESS_BUCKETS == 32
ROUNDNESS_BUCKETS == 8
COMPLEXITY_BUCKETS == 8
STYLE_COUNT == 9
CACHE_SIZE == BRIGHTNESS_BUCKETS * ROUNDNESS_BUCKETS * COMPLEXITY_BUCKETS * STYLE_COUNT

\* styleToIndex
StyleToIndex(style) ==
    CASE style = "dense" -> 1 [] style = "light" -> 2 [] style = "round" -> 3
      [] style = "angular" -> 4 [] style = "line" -> 5 [] style = "noise" -> 6
      [] style = "block" -> 7 [] style = "symbolic" -> 8 [] OTHER -> 0

\* buildKey: Math.floor of a value in thousandths times the bucket count less one.
BuildKey(params) ==
    LET bb == Min(BRIGHTNESS_BUCKETS - 1,
                  (params.targetCoverage * (BRIGHTNESS_BUCKETS - 1)) \div 1000)
        rb == Min(ROUNDNESS_BUCKETS - 1,
                  (OrElse(params.targetRoundness, 500) * (ROUNDNESS_BUCKETS - 1)) \div 1000)
        cb == Min(COMPLEXITY_BUCKETS - 1,
                  (OrElse(params.targetComplexity, 500) * (COMPLEXITY_BUCKETS - 1)) \div 1000)
        si == StyleToIndex(params.glyphStyle)
    IN  bb + rb * BRIGHTNESS_BUCKETS
           + cb * BRIGHTNESS_BUCKETS * ROUNDNESS_BUCKETS
           + si * BRIGHTNESS_BUCKETS * ROUNDNESS_BUCKETS * COMPLEXITY_BUCKETS

\* The table new Array(CACHE_SIZE).fill(null) is held sparsely: cache maps the
\* keys of the filled slots to the record stored (its position in glyphs).
\* Record 0 stands for undefined, which is what reading a slot outside
\* 0 .. CACHE_SIZE-1 yields.
NewGlyphCache == [cache |-> <<>>, hits |-> 0, misses |-> 0]

\* this.cache[key] !== null
SlotNotNull(gc, key) == key \in DOMAIN gc.cache \/ key \notin 0 .. (CACHE_SIZE - 1)
SlotValue(gc, key) == IF key \in DOMAIN gc.cache THEN gc.cache[key] ELSE 0

\* Mutant of select: the record queried on a miss is returned but not stored.
GCSelectNoStore(gs, gc, params) ==
    LET key == BuildKey(params)
    IN  IF SlotNotNull(gc, key)
        THEN [ gc |-> [gc EXCEPT !.hits = @ + 1], result |-> SlotValue(gc, key),
               key |-> key, miss |-> FALSE ]
        ELSE [ gc |-> [gc EXCEPT !.misses = @ + 1], result |-> QueryBest(gs, params),
               key |-> key, miss |-> TRUE ]

\* GlyphCache.select: the cache after the call, the record returned, the key,
\* and whether the database was queried.
GCSelect(gs, gc, params) ==
    LET key == BuildKey(params)
    IN  IF SlotNotNull(gc, key)
        THEN [ gc |-> [gc EXCEPT !.hits = @ + 1], result |-> SlotValue(gc, key),
               key |-> key, miss |-> FALSE ]
        ELSE LET result == QueryBest(gs, params)
             IN  [ gc |-> [gc EXCEPT !.misses = @ + 1,
                                     !.cache = (key :> result) @@ @],
                   result |-> result, key |-> key, miss |-> TRUE ]

\* GlyphCache.clearCache
GCClearCache(gc) == NewGlyphCache

\* The select parameters explored.  Coverages 0.5 and 0.51 fall into one
\* brightness bucket; roundness undefined and 0.5 fall into one roundness bucket.
GCParams ==
    { [targetCoverage |-> c, targetRoundness |-> r, targetComplexity |-> None,
       glyphStyle |-> st] :
        c \in {100, 500, 510}, r \in {None, Some(500), Some(900)}, st \in {"none"} }
    \cup { [targetCoverage |-> 500, targetRoundness |-> None, targetComplexity |-> None,
            glyphStyle |-> "round"],
           [targetCoverage |-> -100, targetRoundness |-> Some(0),
            targetComplexity |-> Some(0), glyphStyle |-> "none"] }

GlyphCacheSelect(params) ==
    LET r == GCSelect(glyphs, glyphCache, params)
    IN  /\ Len(gcLog) < MaxSelects
        /\ glyphCache' = r.gc
        /\ gcLog' = Append(gcLog, [ key |-> r.key, result |-> r.result, miss |-> r.miss,
                                    hits |-> r.gc.hits, misses |-> r.gc.misses ])
        /\ dbQueries' = IF r.miss
                        THEN IF r.key \in DOMAIN dbQueries
                             THEN [dbQueries EXCEPT ![r.key] = @ + 1]
                             ELSE (r.key :> 1) @@ dbQueries
                        ELSE dbQueries
        /\ UNCHANGED <<glyphs, fbVars, aqVars, tileVars, renderVars, unitVars, worldVars, dbVars, ioVars>>

GlyphCacheClearCache ==
    /\ gcLog # <<>>
    /\ glyphCache' = GCClearCache(glyphCache)
    /\ gcLog' = <<>>
    /\ dbQueries' = <<>>
    /\ UNCHANGED <<glyphs, fbVars, aqVars, tileVars, renderVars, unitVars, worldVars, dbVars, ioVars>>

(***************************************************************************)
(* TileRenderer, the render workers, and the worker path of RenderLoop.tick *)
(***************************************************************************)

\* Bounds: the output is TileScreenW x TileScreenH cells, the pool holds
\* WorkerCount workers (max(1, cpus - 1) in the code), and MaxTileFrames frames
\* are dispatched.
TileScreenW == 48
TileScreenH == 1
WorkerCount == 2
MaxTileFrames == 2

TILE_SIZE == 16

\* generateTiles: the two loops, y outside and x inside, in steps of TILE_SIZE;
\* (x, y) is the position the loops are at and tiles the array built so far.
RECURSIVE GenerateTilesFrom(_, _, _, _, _)
GenerateTilesFrom(x, y, screenW, screenH, tiles) ==
    IF y >= screenH THEN tiles
    ELSE IF x >= screenW
         THEN GenerateTilesFrom(0, y + TILE_SIZE, screenW, screenH, tiles)
         ELSE GenerateTilesFrom(x + TILE_SIZE, y, screenW, screenH,
                  Append(tiles, [ x |-> x, y |-> y,
                                  width |-> Min(TILE_SIZE, screenW - x),
                                  height |-> Min(TILE_SIZE, screenH - y) ]))

\* generateTiles without the Math.min on the width: every tile TILE_SIZE wide.
GenerateTilesUnclipped(screenW, screenH) ==
    LET tiles == GenerateTilesFrom(0, 0, screenW, screenH, <<>>)
    IN  [ i \in DOMAIN tiles |-> [tiles[i] EXCEPT !.width = TILE_SIZE] ]

\* generateTiles: the tiles in row-major order.
GenerateTiles(screenW, screenH) == GenerateTilesFrom(0, 0, screenW, screenH, <<>>)

\* The scene the main thread holds when frame n is dispatched.  What a worker
\* renders depends on the snapshot alone; the scene moves from frame to frame.
SceneAtFrame(n) == [time |-> n, entityShift |-> n % 2]

\* The cell a worker computes for pixel (px, py) of a snapshot: createRay,
\* raymarch, computeLighting and getChar, abstracted to a pattern of hit and
\* missed pixels that moves with the scene.
WorkerCell(sceneData, px, py) ==
    IF (px + py + sceneData.entityShift) % 2 = 0
    THEN [char |-> 35, r |-> 200, g |-> 100, b |-> 50, brightness |-> 3 * 2^24]
    ELSE [char |-> SPACE, r |-> 0, g |-> 0, b |-> 0, brightness |-> 0]

\* renderTile: the tile's cells in row-major order.
RenderTile(tile, sceneData, screenW, screenH) ==
    [ tile |-> tile,
      cells |-> [ i \in 1 .. (tile.width * tile.height) |->
                    WorkerCell(sceneData, tile.x + ((i - 1) % tile.width),
                               tile.y + ((i - 1) \div tile.width)) ] ]

\* The passes lo .. hi of writeTileToBuffer's loops over the tile's cells, in
\* row-major order, taken as two halves so that the evaluation stays shallow.
\* (The test on the width has the buffer after the first half computed before
\* the second half starts; set never changes the width.)
RECURSIVE WriteTileCells(_, _, _, _, _)
WriteTileCells(tile, cells, fb, lo, hi) ==
    IF lo > hi THEN fb
    ELSE IF lo = hi
    THEN LET px == tile.x + ((lo - 1) % tile.width)
             py == tile.y + ((lo - 1) \div tile.width)
             cell == cells[lo]
         IN  FBSet(fb, px, py, cell.char, cell.r, cell.g, cell.b, cell.brightness)
    ELSE LET mid == (lo + hi) \div 2
             first == WriteTileCells(tile, cells, fb, lo, mid)
         IN  IF first.width = fb.width
             THEN WriteTileCells(tile, cells, first, mid + 1, hi)
             ELSE first

\* writeTileToBuffer: the cells from the i-th on are written row by row into
\* the tile's bounds.
WriteTileToBuffer(tile, cells, fb, i) ==
    WriteTileCells(tile, cells, fb, i, tile.width * tile.height)

Workers == 0 .. (WorkerCount - 1)

\* renderFrame's dispatch loop: tile i (0-based) goes to worker i % workerCount.
TilesOfWorker(tiles, w) ==
    LET Idx == { i \in 1 .. Len(tiles) : (i - 1) % WorkerCount = w }
        Pick[n \in 0 .. Len(tiles)] ==
            IF n = 0 THEN <<>>
            ELSE IF n \in Idx THEN Append(Pick[n - 1], n) ELSE Pick[n - 1]
    IN  Pick[Len(tiles)]

\* RenderLoop.tick, worker path: the scene is updated, then renderFrame posts
\* one render_tile message per tile and registers one once('message') listener
\* per tile on the worker it went to.
TileTick ==
    /\ tilePhase \in {"idle", "presented"}
    /\ tileFrame < MaxTileFrames
    /\ LET n == tileFrame + 1
           tiles == GenerateTiles(frameBuffer.width, frameBuffer.height)
           sceneData == SceneAtFrame(n)
       IN  /\ tileFrame' = n
           /\ tilePhase' = "rendering"
           /\ workerInbox' = [ w \in Workers |->
                 workerInbox[w] \o
                 [ k \in 1 .. Len(TilesOfWorker(tiles, w)) |->
                     [ type |-> "render_tile", tile |-> tiles[TilesOfWorker(tiles, w)[k]],
                       scene |-> sceneData, screenW |-> frameBuffer.width,
                       screenH |-> frameBuffer.height ] ] ]
           /\ tileListeners' = [ w \in Workers |->
                 tileListeners[w] \o
                 [ k \in 1 .. Len(TilesOfWorker(tiles, w)) |->
                     [frame |-> n, tile |-> TilesOfWorker(tiles, w)[k]] ] ]
           /\ tilePending' = 1 .. Len(tiles)
           /\ tileWritten' = {}
    /\ UNCHANGED <<frameBuffer, workerOutbox, tileSeen, fbCall, aqVars, gcVars, renderVars, unitVars, worldVars, dbVars, ioVars>>

\* The worker's message handler: renderTile for the oldest request, and the
\* result posted back.
WorkerRenderTile(w) ==
    /\ workerInbox[w] # <<>>
    /\ LET msg == Head(workerInbox[w])
           result == RenderTile(msg.tile, msg.scene, msg.screenW, msg.screenH)
       IN  /\ workerInbox' = [workerInbox EXCEPT ![w] = Tail(@)]
           /\ workerOutbox' = [workerOutbox EXCEPT ![w] =
                 Append(@, [ type |-> "tile_result", tile |-> result.tile,
                             cells |-> result.cells, scene |-> msg.scene ])]
    /\ UNCHANGED <<frameBuffer, tileFrame, tilePhase, tileListeners, tilePending,
                   tileWritten, tileSeen, fbCall, aqVars, gcVars, renderVars, unitVars, worldVars, dbVars, ioVars>>

\* The main thread receives a worker's oldest result: the 'message' event runs
\* every once-listener registered on that worker, each writing the message's
\* tile and resolving its own promise, and removes them.  When the last promise
\* of the frame resolves, renderFrame resolves and the frame is presented and
\* its dirty flags cleared before any other message is received.
\* Mutant of the listeners: the result received is not written.
RunListenersNoWrite(n, msg, fb) == fb

RECURSIVE RunListeners(_, _, _)
RunListeners(n, msg, fb) ==
    IF n = 0 THEN fb
    ELSE RunListeners(n - 1, msg, WriteTileToBuffer(msg.tile, msg.cells, fb, 1))

MainReceive(w) ==
    /\ workerOutbox[w] # <<>>
    /\ LET msg == Head(workerOutbox[w])
           fired == tileListeners[w]
           written == RunListeners(Len(fired), msg, frameBuffer)
           pending == tilePending \ { fired[k].tile : k \in 1 .. Len(fired) }
           resolves == tilePhase = "rendering" /\ pending = {}
       IN  /\ workerOutbox' = [workerOutbox EXCEPT ![w] = Tail(@)]
           /\ tileListeners' = [tileListeners EXCEPT ![w] = <<>>]
           /\ tilePending' = pending
           /\ tileWritten' = IF fired = <<>> THEN tileWritten
                             ELSE tileWritten \cup {[tile |-> msg.tile, time |-> msg.scene.time]}
           /\ frameBuffer' = IF resolves THEN FBClearDirtyFlags(written) ELSE written
           /\ tilePhase' = IF resolves THEN "presented" ELSE tilePhase
           /\ tileSeen' = IF resolves /\ tileFrame \notin DOMAIN tileSeen
                          THEN (tileFrame :> FBStored(written)) @@ tileSeen
                          ELSE tileSeen
    /\ UNCHANGED <<tileFrame, workerInbox, fbCall, aqVars, gcVars, renderVars, unitVars, worldVars, dbVars, ioVars>>

\* The program is started again on the same scene: a new FrameBuffer, a new
\* TileRenderer with new workers.  Only the history of presented frames stays.
TileRestart ==
    /\ tilePhase = "presented"
    /\ tileFrame = MaxTileFrames
    /\ frameBuffer' = NewFrameBuffer(TileScreenW, TileScreenH)
    /\ tileFrame' = 0
    /\ tilePhase' = "idle"
    /\ workerInbox' = [w \in Workers |-> <<>>]
    /\ workerOutbox' = [w \in Workers |-> <<>>]
    /\ tileListeners' = [w \in Workers |-> <<>>]
    /\ tilePending' = {}
    /\ tileWritten' = {}
    /\ UNCHANGED <<tileSeen, fbCall, aqVars, gcVars, renderVars, unitVars, worldVars, dbVars, ioVars>>

(***************************************************************************)
(* The single-threaded path of RenderLoop: TemporalCache, the scene, the    *)
(* per-pixel pipeline, the adaptive small buffer and the frame deadline     *)
(***************************************************************************)

\* Bounds: the output is RenderWidth x RenderHeight cells, MaxFrames frames are
\* rendered and the camera is moved no further than MaxCamera.
RenderWidth == 2
RenderHeight == 2
MaxFrames == 5
MaxCamera == 3

FRAME_DEADLINE_MS == 12
DEADLINE_CHECK_PERIOD == 64

\* Camera coordinates are counted in units of 0.0005, so that the threshold
\* 0.001 of cameraChanged is 2.
CAMERA_THRESHOLD == 2

\* new TemporalCache(width, height).  storedAt is history: the resolution and
\* pixel a record was stored for.
NewTemporalCache(width, height) ==
    [ width |-> width, height |-> height,
      depth |-> [i \in 0 .. (width * height - 1) |-> 0],
      entityIndex |-> [i \in 0 .. (width * height - 1) |-> -1],
      valid |-> [i \in 0 .. (width * height - 1) |-> 0],
      hitPos |-> [i \in 0 .. (width * height - 1) |-> <<0, 0>>],
      normalZ |-> [i \in 0 .. (width * height - 1) |-> 0],
      prevCameraPos |-> 0, prevCameraRot |-> 0,
      storedAt |-> [i \in 0 .. (width * height - 1) |-> None] ]

\* TemporalCache.store; a write past the end of a typed array is dropped.
TCStore(tc, x, y, depth, entityIdx, hitPos, normalZ, w, h) ==
    LET idx == y * tc.width + x
    IN  [ tc EXCEPT !.depth = ArrayPut(@, idx, depth),
                    !.entityIndex = ArrayPut(@, idx, entityIdx),
                    !.hitPos = ArrayPut(@, idx, hitPos),
                    !.normalZ = ArrayPut(@, idx, normalZ),
                    !.valid = ArrayPut(@, idx, 1),
                    !.storedAt = ArrayPut(@, idx, Some(<<w, h, x, y>>)) ]

\* TemporalCache.storeMiss
TCStoreMiss(tc, x, y, w, h) ==
    LET idx == y * tc.width + x
    IN  [ tc EXCEPT !.entityIndex = ArrayPut(@, idx, -1),
                    !.valid = ArrayPut(@, idx, 1),
                    !.storedAt = ArrayPut(@, idx, Some(<<w, h, x, y>>)) ]

\* Mutant of isValid: no record is ever valid.
TCIsValidNever(tc, x, y) == FALSE

\* TemporalCache.isValid
TCIsValid(tc, x, y) == ArrayGet(tc.valid, y * tc.width + x) = 1

\* TemporalCache.getEntityIndex
TCGetEntityIndex(tc, x, y) == ArrayGet(tc.entityIndex, y * tc.width + x)

\* TemporalCache.getHitPos and getNormal
TCGetHitPos(tc, x, y) == tc.hitPos[y * tc.width + x]
TCGetNormal(tc, x, y) == tc.normalZ[y * tc.width + x]

\* TemporalCache.cameraChanged: a component moved by more than the threshold.
TCCameraChanged(tc, camPos, camRot) ==
    \/ Abs(camPos - tc.prevCameraPos) > CAMERA_THRESHOLD
    \/ Abs(camRot - tc.prevCameraRot) > CAMERA_THRESHOLD

\* Mutant of updateCamera: the previous camera pose is not recorded.
TCUpdateCameraStale(tc, camPos, camRot) == tc

\* Mutant of updateCamera: only the rotation is recorded.
TCUpdateCameraRotationOnly(tc, camPos, camRot) ==
    [tc EXCEPT !.prevCameraRot = camRot]

\* TemporalCache.updateCamera
TCUpdateCamera(tc, camPos, camRot) ==
    [tc EXCEPT !.prevCameraPos = camPos, !.prevCameraRot = camRot]

\* The scene main hands to the RenderLoop: a stationary entity, a second entity
\* that moves or not, one directional light that flickers or not.  Positions
\* are cells of the plane the camera looks at; quantities in [0, 1] are counted
\* in thousandths.
MakeScene(moving, flickering, pulsing) ==
    [ time |-> 0,
      camera |-> [position |-> 0, rotation |-> 0],
      entities |-> <<
          [ position |-> <<1, 1>>, velocity |-> None, angularVelocity |-> None,
            facing |-> 1000,
            material |-> [ baseColor |-> [r |-> 200, g |-> 100, b |-> 50],
                           roughness |-> 500, emissive |-> 0, glyphStyle |-> "none",
                           motionBehavior |-> IF pulsing
                                              THEN Some([type |-> "pulse", speed |-> 1])
                                              ELSE None ] ],
          [ position |-> <<2, 1>>,
            velocity |-> IF moving THEN Some(<<1, 0>>) ELSE None,
            angularVelocity |-> None,
            facing |-> 1000,
            material |-> [ baseColor |-> [r |-> 60, g |-> 220, b |-> 120],
                           roughness |-> 200, emissive |-> 0, glyphStyle |-> "round",
                           motionBehavior |-> Some([type |-> "static", speed |-> 1]) ] ] >>,
      lights |-> <<
          [ type |-> "directional", intensity |-> 375,
            color |-> [r |-> 255, g |-> 255, b |-> 255],
            flicker |-> IF flickering
                        THEN Some([speed |-> 1, amplitude |-> 500, noise |-> "wave"])
                        ELSE None ] >>,
      environment |-> [ ambientLight |-> 125,
                        backgroundColor |-> [r |-> 10, g |-> 10, b |-> 30] ] ]

SceneChoices == { MakeScene(m, f, p) : m \in BOOLEAN, f \in BOOLEAN, p \in BOOLEAN }

\* The glyph store the renderer loads.
RenderGlyphRows ==
    << [codePoint |-> 46, coverage |-> 100, roundness |-> 900, complexity |-> 100,
        symmetryH |-> 1000, connectedComponents |-> 1],
       [codePoint |-> 43, coverage |-> 350, roundness |-> 500, complexity |-> 400,
        symmetryH |-> 1000, connectedComponents |-> 1],
       [codePoint |-> 35, coverage |-> 600, roundness |-> 200, complexity |-> 800,
        symmetryH |-> 500, connectedComponents |-> 1] >>

\* Math.sin(time * speed), with time counted in quarter periods, in thousandths.
SinQuarter(t) == CASE t % 4 = 1 -> 1000 [] t % 4 = 3 -> -1000 [] OTHER -> 0

\* An updateLightFlicker that modulates the intensity the light has now.
UpdateLightFlickerCompounding(lights, bases, time) ==
    LET Flickers == { i \in DOMAIN lights : lights[i].flicker # None }
    IN  [ lights |-> [ i \in DOMAIN lights |->
                         IF i \in Flickers
                         THEN LET fl == lights[i].flicker[1]
                                  flickerValue == (SinQuarter(time * fl.speed) * fl.amplitude) \div 1000
                              IN  [lights[i] EXCEPT !.intensity = (@ * (1000 + flickerValue)) \div 1000]
                         ELSE lights[i] ],
          bases |-> [ i \in (DOMAIN bases) \cup Flickers |->
                        IF i \in DOMAIN bases THEN bases[i] ELSE lights[i].intensity ] ]

\* updateLightFlicker: the base intensity of a flickering light is remembered
\* on the first call and the intensity set to base * (1 + flickerValue).
UpdateLightFlicker(lights, bases, time) ==
    LET base(i) == IF i \in DOMAIN bases THEN bases[i] ELSE lights[i].intensity
        Flickers == { i \in DOMAIN lights : lights[i].flicker # None }
    IN  [ lights |-> [ i \in DOMAIN lights |->
                         IF i \in Flickers
                         THEN LET fl == lights[i].flicker[1]
                                  flickerValue == (SinQuarter(time * fl.speed) * fl.amplitude) \div 1000
                              IN  [lights[i] EXCEPT !.intensity = (base(i) * (1000 + flickerValue)) \div 1000]
                         ELSE lights[i] ],
          bases |-> [ i \in (DOMAIN bases) \cup Flickers |-> base(i) ] ]

\* updateScene: an entity with a velocity moves by velocity * dt, dt one unit.
UpdateScene(entities) ==
    [ i \in DOMAIN entities |->
        IF entities[i].velocity # None
        THEN [entities[i] EXCEPT !.position = <<@[1] + entities[i].velocity[1][1],
                                               @[2] + entities[i].velocity[1][2]>>]
        ELSE entities[i] ]

\* hasAnyFlicker and hasAnyMoving
HasAnyFlicker(sc) == \E i \in DOMAIN sc.lights : sc.lights[i].flicker # None
HasAnyMoving(sc) ==
    \E i \in DOMAIN sc.entities :
        sc.entities[i].velocity # None \/ sc.entities[i].angularVelocity # None

\* createRay and raymarch, abstracted: the camera looks at a plane of
\* WorldSize x WorldSize cells; the ray of pixel (x, y) of a width x height
\* buffer goes through the cell under the pixel's centre, shifted by one cell
\* for every CameraUnitsPerCell units of camera position; it hits the first
\* entity standing in that cell.
WorldSize == 4
CameraUnitsPerCell == 3

CreateRay(cam, x, y, width, height) ==
    << ((2 * x + 1) * WorldSize) \div (2 * width) + cam.position \div CameraUnitsPerCell,
       ((2 * y + 1) * WorldSize) \div (2 * height) + cam.rotation \div CameraUnitsPerCell >>

Raymarch(ray, entities) ==
    LET Hits == { i \in DOMAIN entities : entities[i].position = ray }
    IN  IF Hits = {} THEN [hit |-> FALSE]
        ELSE LET i == CHOOSE k \in Hits : \A j \in Hits : k <= j
             IN  [ hit |-> TRUE, entityIndex |-> i - 1, position |-> ray,
                   normalZ |-> entities[i].facing, distance |-> 5,
                   material |-> entities[i].material ]

\* computeLighting for directional lights shining along the view axis.
RECURSIVE LightSum(_, _, _)
LightSum(lights, normalZ, i) ==
    IF i > Len(lights) THEN 0
    ELSE (Max(0, normalZ) * lights[i].intensity) \div 1000 + LightSum(lights, normalZ, i + 1)

Clamp(v, lo, hi) == Max(lo, Min(hi, v))

ComputeLighting(normalZ, material, sc) ==
    LET total == LightSum(sc.lights, normalZ, 1)
                 + (IF material.emissive > 0 THEN material.emissive ELSE 0)
                 + sc.environment.ambientLight
    IN  [ brightness |-> Clamp(total, 0, 1000),
          r |-> Clamp((total * material.baseColor.r) \div 1000, 0, 255),
          g |-> Clamp((total * material.baseColor.g) \div 1000, 0, 255),
          b |-> Clamp((total * material.baseColor.b) \div 1000, 0, 255) ]

\* A brightness in thousandths as the number FrameBuffer.set is given, in
\* units of 2^-26.
BrightnessArg(t) == (t \div 125) * 2^23 + ((t % 125) * 2^23) \div 125

\* animateGlyph: a pulse re-selects the glyph with the coverage scaled by
\* 1 + 0.3 sin(time * speed); a static or absent behaviour keeps the glyph.
AnimateGlyph(gs, gc, glyph, material, time, originalParams) ==
    IF material.motionBehavior = None THEN [gc |-> gc, result |-> glyph]
    ELSE IF material.motionBehavior[1].type = "pulse"
    THEN LET pulseFactor == 1000 + (SinQuarter(time * material.motionBehavior[1].speed) * 300) \div 1000
             newCoverage == Clamp((gs[glyph].normalizedCoverage * pulseFactor) \div 1000, 0, 1000)
             sel == GCSelect(gs, gc, [originalParams EXCEPT !.targetCoverage = newCoverage])
         IN  [gc |-> sel.gc, result |-> sel.result]
    ELSE [gc |-> gc, result |-> glyph]

\* The phase shift pixelOffset * 0.5 that the full path adds to the time it
\* hands to animateGlyph, in quarter periods.
PixelPhase(position) == (position[1] + position[2]) % 2

\* RAMP = ' .,:;=+*#%@': the code points of the fallback characters, darkest
\* first.
RAMP == <<32, 46, 44, 58, 59, 61, 43, 42, 35, 37, 64>>

\* Math.floor(brightness * (RAMP.length - 1)), the brightness in thousandths.
RampIndex(brightness) == (brightness * (Len(RAMP) - 1)) \div 1000

\* RAMP[idx]: undefined (-1) outside the string.
RampChar(idx) == IF (idx + 1) \in DOMAIN RAMP THEN RAMP[idx + 1] ELSE -1

\* Shading of a hit: computeLighting, the glyph selected for it and, on the
\* full path only, animateGlyph.
GlyphParams(lit, normalZ, material) ==
    [ targetCoverage |-> lit.brightness,
      targetRoundness |-> Some(Abs(normalZ)),
      targetComplexity |-> Some(material.roughness),
      glyphStyle |-> material.glyphStyle ]

ShadeSelected(gs, sc, lit, params, sel, material, position, animate) ==
    IF animate /\ material.motionBehavior # None
    THEN [ lit |-> lit,
           glyph |-> AnimateGlyph(gs, sel.gc, sel.result, material,
                                  sc.time + PixelPhase(position), params) ]
    ELSE [ lit |-> lit, glyph |-> [gc |-> sel.gc, result |-> sel.result] ]

\* The shading of a lit hit.  With no glyph cache (gs is empty: no GlyphDB could
\* be opened) the character comes from RAMP; animate is TRUE on the full
\* raymarch path, which clamps the ramp index, and FALSE on the re-shading path,
\* which does not.
ShadeLit(gs, gc, sc, lit, normalZ, material, position, animate) ==
    IF gs = <<>>
    THEN [ lit |-> lit, glyph |-> [gc |-> gc, result |-> 0],
           char |-> IF animate
                    THEN RampChar(Clamp(RampIndex(lit.brightness), 0, Len(RAMP) - 1))
                    ELSE RampChar(RampIndex(lit.brightness)) ]
    ELSE ShadeSelected(gs, sc, lit, GlyphParams(lit, normalZ, material),
                       GCSelect(gs, gc, GlyphParams(lit, normalZ, material)),
                       material, position, animate)

Shade(gs, gc, sc, normalZ, material, position, animate) ==
    ShadeLit(gs, gc, sc, ComputeLighting(normalZ, material, sc), normalZ, material,
             position, animate)

\* frameBuffer.set with the shaded cell: the glyph's character (or the ramp's),
\* the lit colour and brightness.
WriteShaded(st, gs, x, y, sh) ==
    [ st EXCEPT !.fb = FBSet(@, x, y,
                             IF gs = <<>> THEN sh.char ELSE gs[sh.glyph.result].codePoint,
                             sh.lit.r, sh.lit.g, sh.lit.b,
                             BrightnessArg(sh.lit.brightness)),
                !.gc = sh.glyph.gc ]

\* The full raymarch of a pixel: a hit is shaded, written and stored, a miss
\* writes the background and is stored as a miss.
TracePixel(st, sc, gs, x, y, width, height, result) ==
    IF result.hit
    THEN [ WriteShaded(st, gs, x, y,
                       Shade(gs, st.gc, sc, result.normalZ, result.material,
                             result.position, TRUE))
             EXCEPT !.tc = TCStore(@, x, y, result.distance, result.entityIndex,
                                   result.position, result.normalZ, width, height),
                    !.traced = @ \cup {<<x, y>>} ]
    ELSE [ st EXCEPT
             !.fb = FBSet(@, x, y, SPACE, sc.environment.backgroundColor.r,
                          sc.environment.backgroundColor.g,
                          sc.environment.backgroundColor.b, 0),
             !.tc = TCStoreMiss(@, x, y, width, height),
             !.traced = @ \cup {<<x, y>>} ]

\* Mutant of the re-shading: the cell is left as it is.
ReshadePixelNoWrite(st, sc, gs, x, y, eIdx) == st

\* Geometry reuse under a flickering light: the cached hit is shaded again.
ReshadePixel(st, sc, gs, x, y, eIdx) ==
    [ WriteShaded(st, gs, x, y,
                  Shade(gs, st.gc, sc, TCGetNormal(st.tc, x, y),
                        sc.entities[eIdx + 1].material, TCGetHitPos(st.tc, x, y), FALSE))
        EXCEPT !.reshaded = @ \cup {<<x, y>>} ]

\* Mutant of the guard: a camera change is ignored.
ReuseCandidateAnyCamera(opts, cameraChanged, tc, x, y) ==
    opts.useTemporalReuse /\ TCIsValid(tc, x, y)

\* The guard of the temporal reuse decision.
ReuseCandidate(opts, cameraChanged, tc, x, y) ==
    opts.useTemporalReuse /\ ~cameraChanged /\ TCIsValid(tc, x, y)

EntityMoving(sc, eIdx) ==
    /\ (eIdx + 1) \in DOMAIN sc.entities
    /\ \/ sc.entities[eIdx + 1].velocity # None
       \/ sc.entities[eIdx + 1].angularVelocity # None

\* The temporal reuse decision for a pixel whose record may be reused.
ReusePixel(st, sc, gs, x, y, width, height, eIdx, anyMoving, anyFlicker) ==
    IF eIdx = -1
    THEN IF ~anyMoving THEN st
         ELSE TracePixel(st, sc, gs, x, y, width, height,
                         Raymarch(CreateRay(sc.camera, x, y, width, height), sc.entities))
    ELSE IF ~EntityMoving(sc, eIdx)
         THEN IF anyFlicker THEN ReshadePixel(st, sc, gs, x, y, eIdx) ELSE st
         ELSE TracePixel(st, sc, gs, x, y, width, height,
                         Raymarch(CreateRay(sc.camera, x, y, width, height), sc.entities))

\* The body of the pixel loop of renderFrameSingleThread after the deadline
\* check: the temporal reuse decision, then the full raymarch.  st carries the
\* buffer, the cache, the glyph cache and the history of the frame.
RenderPixel(st, sc, opts, gs, x, y, width, height, cameraChanged, anyMoving, anyFlicker) ==
    IF ReuseCandidate(opts, cameraChanged, st.tc, x, y)
    THEN ReusePixel(st, sc, gs, x, y, width, height, TCGetEntityIndex(st.tc, x, y),
                    anyMoving, anyFlicker)
    ELSE TracePixel(st, sc, gs, x, y, width, height,
                    Raymarch(CreateRay(sc.camera, x, y, width, height), sc.entities))

\* The two loops of renderFrameSingleThread over the pixels idx, idx + 1, ...
\* in row-major order.  With adaptive quality, at every pixel whose index is a
\* multiple of 64 the deadline is checked, and when it has passed (elapsed, the
\* time since frameStart, exceeds FRAME_DEADLINE_MS) the break leaves the loop
\* over x: the rest of that row is dropped and the scan goes on with the next row.
RECURSIVE RenderScan(_, _, _, _, _, _, _, _, _, _)
RenderScan(st, sc, opts, gs, idx, width, height, cameraChanged, anyMoving, elapsed) ==
    IF idx >= width * height THEN st
    ELSE LET x == idx % width
             y == idx \div width
         IN  IF /\ opts.useAdaptiveQuality
                /\ (x + y * width) % DEADLINE_CHECK_PERIOD = 0
                /\ elapsed > FRAME_DEADLINE_MS
             THEN RenderScan([st EXCEPT !.dropped = @ \cup { <<c, y>> : c \in x .. (width - 1) }],
                             sc, opts, gs, (y + 1) * width, width, height,
                             cameraChanged, anyMoving, elapsed)
             ELSE RenderScan(RenderPixel(st, sc, opts, gs, x, y, width, height,
                                         cameraChanged, anyMoving, HasAnyFlicker(sc)),
                             sc, opts, gs, idx + 1, width, height,
                             cameraChanged, anyMoving, elapsed)

\* renderFrameSingleThread
RenderFrameSingleThread(fb, tc, gc, sc, opts, gs, elapsed) ==
    LET cameraChanged == TCCameraChanged(tc, sc.camera.position, sc.camera.rotation)
        st == RenderScan([ fb |-> fb, tc |-> tc, gc |-> gc, traced |-> {},
                           reshaded |-> {}, dropped |-> {} ],
                         sc, opts, gs, 0, fb.width, fb.height,
                         cameraChanged, HasAnyMoving(sc), elapsed)
    IN  [st EXCEPT !.tc = TCUpdateCamera(@, sc.camera.position, sc.camera.rotation)]

\* AdaptiveQuality.upscale: nearest neighbour, source cell floor(x * scale).
RECURSIVE Upscale(_, _, _, _)
Upscale(aq, small, full, idx) ==
    IF idx >= full.width * full.height THEN full
    ELSE LET x == idx % full.width
             y == idx \div full.width
             cell == FBGet(small, (x * aq.currentScale) \div 100, (y * aq.currentScale) \div 100)
         IN  Upscale(aq, small,
                     FBSet(full, x, y, cell.char, cell.r, cell.g, cell.b, cell.brightness),
                     idx + 1)

\* The inputs of a tick: how far the camera controller moves the camera, the
\* frame time measured (ms), and the time (ms) that has passed since frameStart
\* when the deadline is checked.  A camera move of 1 (0.0005) is below the
\* threshold of cameraChanged, a move of 3 above it.
CameraMoves == {0, 1, 3}
FrameTimes == {20, 45}
ElapsedChoices == {FRAME_DEADLINE_MS, FRAME_DEADLINE_MS + 1}

\* History kept beside a loop with temporal reuse and without adaptive
\* quality: the same loop run on the same scene with useTemporalReuse false
\* (every pixel of every frame takes the full raymarch path, whatever the
\* cache holds).  plain holds its frame buffer and glyph cache.
PlainFrame(plain, sc, opts, gs) ==
    IF opts.useAdaptiveQuality \/ ~opts.useTemporalReuse THEN plain
    ELSE LET out == RenderFrameSingleThread(
                        plain.fb, NewTemporalCache(plain.fb.width, plain.fb.height),
                        plain.gc, sc,
                        [useTemporalReuse |-> FALSE, useAdaptiveQuality |-> FALSE], gs, 0)
         IN  [fb |-> FBClearDirtyFlags(out.fb), gc |-> out.gc]

NoFrame ==
    [ frame |-> 0, width |-> 0, height |-> 0, camera |-> [position |-> 0, rotation |-> 0],
      traced |-> {}, reshaded |-> {}, dropped |-> {} ]

\* The buffer a tick renders into: the full buffer, or with adaptive quality
\* below scale 1 the small buffer, allocated anew when its size changes.
UseSmallBuffer(opts, aq) == opts.useAdaptiveQuality /\ aq.currentScale < MaxScale

SmallBufferFor(sb, sw, sh) ==
    IF sb = None \/ OrElse(sb, [width |-> 0, height |-> 0]).width # sw
       \/ OrElse(sb, [width |-> 0, height |-> 0]).height # sh
    THEN NewFrameBuffer(sw, sh) ELSE sb[1]

RenderTarget(opts, aq, fb, sb) ==
    IF UseSmallBuffer(opts, aq)
    THEN SmallBufferFor(sb, Max(1, (fb.width * aq.currentScale) \div 100),
                        Max(1, (fb.height * aq.currentScale) \div 100))
    ELSE fb

\* RenderLoop.tick, single-threaded path: time, camera input, light flicker and
\* scene update; the frame rendered into the full buffer or, with adaptive
\* quality below scale 1, into the small buffer and upscaled; presentation,
\* clearDirtyFlags, adjust.
Tick(move, frameTime, elapsed) ==
    /\ frameCount < MaxFrames
    /\ scene.camera.position + move <= MaxCamera
    /\ \E fl \in { UpdateLightFlicker(scene.lights, baseIntensities, scene.time + 1) } :
       \E sc \in { [ scene EXCEPT !.time = @ + 1, !.camera.position = @ + move,
                                  !.lights = fl.lights, !.entities = UpdateScene(@) ] } :
       \E out \in { RenderFrameSingleThread(
                        RenderTarget(loopOptions, adaptive, frameBuffer, smallBuffer),
                        temporal, glyphCache, sc, loopOptions, glyphs, elapsed) } :
           /\ scene' = sc
           /\ baseIntensities' = fl.bases
           /\ temporal' = out.tc
           /\ glyphCache' = out.gc
           /\ smallBuffer' = IF UseSmallBuffer(loopOptions, adaptive)
                             THEN Some(out.fb) ELSE smallBuffer
           /\ frameBuffer' = FBClearDirtyFlags(
                                 IF UseSmallBuffer(loopOptions, adaptive)
                                 THEN Upscale(adaptive, out.fb, frameBuffer, 0)
                                 ELSE out.fb)
           /\ adaptive' = IF loopOptions.useAdaptiveQuality
                          THEN AQAdjust(adaptive, frameTime) ELSE adaptive
           /\ frameCount' = frameCount + 1
           /\ frameLog' = [ frame |-> frameCount + 1,
                            width |-> out.fb.width, height |-> out.fb.height,
                            camera |-> sc.camera,
                            traced |-> out.traced, reshaded |-> out.reshaded,
                            dropped |-> out.dropped,
                            temporalBefore |-> temporal,
                            small |-> UseSmallBuffer(loopOptions, adaptive),
                            storedBefore |-> FBStored(frameBuffer),
                            storedPose |-> [ i \in DOMAIN frameLog.storedPose |->
                                IF i \in { p[2] * temporal.width + p[1] : p \in out.traced }
                                THEN sc.camera ELSE frameLog.storedPose[i] ],
                            plain |-> PlainFrame(frameLog.plain, sc, loopOptions, glyphs),
                            prev |-> [ f \in DOMAIN NoFrame |-> frameLog[f] ] ]
    /\ UNCHANGED <<loopOptions, glyphs, gcLog, dbQueries, fbCall, aqCall, tileVars, unitVars, worldVars, dbVars, ioVars>>

(***************************************************************************)
(* The tile layout alone: generateTiles and writeTileToBuffer on every     *)
(* output size                                                             *)
(***************************************************************************)

\* Bounds: the output is 1..MaxLayoutW wide and 1..MaxLayoutH high, so that a
\* second, narrower column of tiles and a second, lower row of tiles occur.
MaxLayoutW == 33
MaxLayoutH == 17

\* The cells a worker returns for tile number n (1-based): one per pixel of the
\* tile in row-major order; cell i carries n and i, so that every cell of every
\* tile is different from every other and from a blank cell.
LayoutCells(n, tile) ==
    [ i \in 1 .. (tile.width * tile.height) |->
        [ char |-> 64 + n, r |-> i - 1, g |-> 1, b |-> 1, brightness |-> BrightnessOne ] ]

\* A TileRenderer's view of a screenW x screenH output before any result.
NewLayout(screenW, screenH) ==
    [ tiles |-> GenerateTiles(screenW, screenH),
      buffer |-> NewFrameBuffer(screenW, screenH),
      written |-> {} ]

\* The result of tile n arrives and writeTileToBuffer writes it.
LayoutWriteTile(n) ==
    /\ layout # None
    /\ n \in DOMAIN layout[1].tiles
    /\ n \notin layout[1].written
    /\ layout' = Some([ layout[1] EXCEPT
            !.buffer = WriteTileToBuffer(layout[1].tiles[n],
                                         LayoutCells(n, layout[1].tiles[n]), @, 1),
            !.written = @ \cup {n} ])
    /\ UNCHANGED <<fbVars, aqVars, gcVars, tileVars, renderVars, tcCall, gcWarm, workerPool, worldVars, dbVars, ioVars>>

(***************************************************************************)
(* TemporalCache alone: store, storeMiss, invalidateAll and resize in any  *)
(* order                                                                   *)
(***************************************************************************)

\* Bounds: the cache is 1..MaxCacheW wide and 1..MaxCacheH high.
MaxCacheW == 2
MaxCacheH == 2

\* Bound: the number of calls made on one cache.
MaxCacheCalls == 3

\* invalidateAll that leaves the valid flags as they are.
TCInvalidateAllKeeps(tc) == tc

\* TemporalCache.invalidateAll: valid.fill(0).
TCInvalidateAll(tc) ==
    [ tc EXCEPT !.valid = [i \in DOMAIN @ |-> 0],
                !.storedAt = [i \in DOMAIN @ |-> None] ]

\* TemporalCache.resize: every array is allocated anew at the new size; the
\* previous camera pose is kept.
TCResize(tc, newWidth, newHeight) ==
    [ NewTemporalCache(newWidth, newHeight) EXCEPT
        !.prevCameraPos = tc.prevCameraPos, !.prevCameraRot = tc.prevCameraRot ]

\* The hits stored: entity index, depth, hit position and normal (z).
CacheHits == { [entityIdx |-> 0, depth |-> 5, hitPos |-> <<1, 1>>, normalZ |-> 1000],
               [entityIdx |-> 1, depth |-> 7, hitPos |-> <<2, 1>>, normalZ |-> 500] }

\* No call has been made since construction.
NoCacheCall == [op |-> "new", x |-> 0, y |-> 0, since |-> {}, calls |-> 0]

TemporalStore(x, y, hit) ==
    /\ tcCall # None
    /\ tcCall[1].calls < MaxCacheCalls
    /\ x \in 0 .. (temporal.width - 1) /\ y \in 0 .. (temporal.height - 1)
    /\ temporal' = TCStore(temporal, x, y, hit.depth, hit.entityIdx, hit.hitPos,
                           hit.normalZ, temporal.width, temporal.height)
    /\ tcCall' = Some([ op |-> "store", x |-> x, y |-> y, before |-> temporal,
                        since |-> tcCall[1].since \cup {<<x, y>>},
                        calls |-> tcCall[1].calls + 1 ])
    /\ UNCHANGED <<fbVars, aqVars, gcVars, tileVars, scene, loopOptions, smallBuffer,
                   baseIntensities, frameCount, frameLog, layout, gcWarm, workerPool, worldVars, dbVars, ioVars>>

TemporalStoreMiss(x, y) ==
    /\ tcCall # None
    /\ tcCall[1].calls < MaxCacheCalls
    /\ x \in 0 .. (temporal.width - 1) /\ y \in 0 .. (temporal.height - 1)
    /\ temporal' = TCStoreMiss(temporal, x, y, temporal.width, temporal.height)
    /\ tcCall' = Some([ op |-> "storeMiss", x |-> x, y |-> y, before |-> temporal,
                        since |-> tcCall[1].since \cup {<<x, y>>},
                        calls |-> tcCall[1].calls + 1 ])
    /\ UNCHANGED <<fbVars, aqVars, gcVars, tileVars, scene, loopOptions, smallBuffer,
                   baseIntensities, frameCount, frameLog, layout, gcWarm, workerPool, worldVars, dbVars, ioVars>>

TemporalInvalidateAll ==
    /\ tcCall # None
    /\ tcCall[1].calls < MaxCacheCalls
    /\ temporal' = TCInvalidateAll(temporal)
    /\ tcCall' = Some([ op |-> "invalidateAll", x |-> 0, y |-> 0, before |-> temporal,
                        since |-> {}, calls |-> tcCall[1].calls + 1 ])
    /\ UNCHANGED <<fbVars, aqVars, gcVars, tileVars, scene, loopOptions, smallBuffer,
                   baseIntensities, frameCount, frameLog, layout, gcWarm, workerPool, worldVars, dbVars, ioVars>>

TemporalResize(newWidth, newHeight) ==
    /\ tcCall # None
    /\ tcCall[1].calls < MaxCacheCalls
    /\ temporal' = TCResize(temporal, newWidth, newHeight)
    /\ tcCall' = Some([ op |-> "resize", x |-> 0, y |-> 0, before |-> temporal,
                        since |-> {}, calls |-> tcCall[1].calls + 1 ])
    /\ UNCHANGED <<fbVars, aqVars, gcVars, tileVars, scene, loopOptions, smallBuffer,
                   baseIntensities, frameCount, frameLog, layout, gcWarm, workerPool, worldVars, dbVars, ioVars>>

(***************************************************************************)
(* GlyphCache.warmup                                                       *)
(***************************************************************************)

\* Bound: the select calls made on one cache beside the warmup.
MaxWarmSelects == 2

\* The style warmup finds for style index si: the entry of STYLE_INDEX whose
\* value is si, undefined ("none") for 0.
WarmupStyle(si) ==
    CASE si = 1 -> "dense" [] si = 2 -> "light" [] si = 3 -> "round"
      [] si = 4 -> "angular" [] si = 5 -> "line" [] si = 6 -> "noise"
      [] si = 7 -> "block" [] si = 8 -> "symbolic" [] OTHER -> "none"

\* The double k / n of warmup, in thousandths.  In double arithmetic (k / n) * n
\* is exactly k for n = 31 and every k in 0..31, and for n = 7 and every k in
\* 0..7, so buildKey's Math.floor yields bucket k; the thousandths are rounded
\* up, which keeps the product at or above k.
WarmupValue(k, n) == (k * 1000 + n - 1) \div n

\* The parameters of the select call of one iteration of warmup.
WarmupParams(si, bb, rb, cb) ==
    [ targetCoverage |-> WarmupValue(bb, BRIGHTNESS_BUCKETS - 1),
      targetRoundness |-> Some(WarmupValue(rb, ROUNDNESS_BUCKETS - 1)),
      targetComplexity |-> Some(WarmupValue(cb, COMPLEXITY_BUCKETS - 1)),
      glyphStyle |-> WarmupStyle(si) ]

\* The key of the select call of one iteration.
WarmupKey(si, bb, rb, cb) == BuildKey(WarmupParams(si, bb, rb, cb))

\* The first value of one loop variable, the others held at 0, whose iteration
\* has the key digit `digit` at the place value `place` of buildKey's sum
\* (1 for bb, 32 for rb, 256 for cb, 2048 for si); -1 if no value has.  keyAt
\* maps the values of the loop variable to the keys.
WarmupFirstOf(count, place, digit, keyAt) ==
    LET hitting == { v \in 0 .. (count - 1) : (keyAt[v] \div place) % count = digit }
    IN  IF hitting = {} THEN -1 ELSE CHOOSE v \in hitting : \A u \in hitting : v <= u

\* Per loop variable, from key digit to the first loop value that produces it.
WarmupFirstStyle ==
    LET keyAt == [ v \in 0 .. (STYLE_COUNT - 1) |-> WarmupKey(v, 0, 0, 0) ]
    IN  [ d \in 0 .. (STYLE_COUNT - 1) |->
            WarmupFirstOf(STYLE_COUNT,
                          BRIGHTNESS_BUCKETS * ROUNDNESS_BUCKETS * COMPLEXITY_BUCKETS,
                          d, keyAt) ]
WarmupFirstBrightness ==
    LET keyAt == [ v \in 0 .. (BRIGHTNESS_BUCKETS - 1) |-> WarmupKey(0, v, 0, 0) ]
    IN  [ d \in 0 .. (BRIGHTNESS_BUCKETS - 1) |->
            WarmupFirstOf(BRIGHTNESS_BUCKETS, 1, d, keyAt) ]
WarmupFirstRoundness ==
    LET keyAt == [ v \in 0 .. (ROUNDNESS_BUCKETS - 1) |-> WarmupKey(0, 0, v, 0) ]
    IN  [ d \in 0 .. (ROUNDNESS_BUCKETS - 1) |->
            WarmupFirstOf(ROUNDNESS_BUCKETS, BRIGHTNESS_BUCKETS, d, keyAt) ]
WarmupFirstComplexity ==
    LET keyAt == [ v \in 0 .. (COMPLEXITY_BUCKETS - 1) |-> WarmupKey(0, 0, 0, v) ]
    IN  [ d \in 0 .. (COMPLEXITY_BUCKETS - 1) |->
            WarmupFirstOf(COMPLEXITY_BUCKETS, BRIGHTNESS_BUCKETS * ROUNDNESS_BUCKETS,
                          d, keyAt) ]

\* The first iteration of the four nested loops (si, bb, rb, cb, outermost
\* first) whose select has the key `key`, as <<si, bb, rb, cb>> with -1 where
\* no loop value produces the digit.  Each loop variable determines one digit
\* of the key, so the first iteration is the first value of each variable.
WarmupFirstIteration(key) ==
    << WarmupFirstStyle[key \div (BRIGHTNESS_BUCKETS * ROUNDNESS_BUCKETS * COMPLEXITY_BUCKETS)],
       WarmupFirstBrightness[key % BRIGHTNESS_BUCKETS],
       WarmupFirstRoundness[(key \div BRIGHTNESS_BUCKETS) % ROUNDNESS_BUCKETS],
       WarmupFirstComplexity[(key \div (BRIGHTNESS_BUCKETS * ROUNDNESS_BUCKETS))
                                % COMPLEXITY_BUCKETS] >>

\* The slots some iteration of warmup selects.
WarmupKeys ==
    { key \in 0 .. (CACHE_SIZE - 1) : \A n \in 1 .. 4 : WarmupFirstIteration(key)[n] >= 0 }

\* The table after the loops of warmup: a select changes its own slot only, and
\* only when the slot is empty, so a slot filled before keeps its record and an
\* empty slot takes the record queried by the first iteration that selects it.
WarmupFill(gs, gc, keys) ==
    [ key \in (DOMAIN gc.cache) \cup keys |->
        IF key \in DOMAIN gc.cache THEN gc.cache[key]
        ELSE LET it == WarmupFirstIteration(key)
             IN  GCSelect(gs, NewGlyphCache, WarmupParams(it[1], it[2], it[3], it[4])).result ]

\* warmup that stops after the first style (si = 0).
GCWarmupFirstStyleOnly(gs, gc) ==
    [ cache |-> WarmupFill(gs, gc, { key \in WarmupKeys : WarmupFirstIteration(key)[1] = 0 }),
      hits |-> 0, misses |-> 0 ]

\* GlyphCache.warmup: every iteration selects; then hits and misses are reset.
GCWarmup(gs, gc) ==
    [ cache |-> WarmupFill(gs, gc, WarmupKeys), hits |-> 0, misses |-> 0 ]

\* The select parameters of the warmup specification, inside [0,1]: the lowest
\* coverage with the optional fields left out, and the highest coverage with a
\* roundness and a complexity between two bucket boundaries and a style.
WarmParams ==
    { [targetCoverage |-> 0, targetRoundness |-> None, targetComplexity |-> None,
       glyphStyle |-> "none"],
      [targetCoverage |-> 1000, targetRoundness |-> Some(900),
       targetComplexity |-> Some(150), glyphStyle |-> "round"] }

GlyphCacheWarmup ==
    /\ gcWarm = None
    /\ \E warmed \in {GCWarmup(glyphs, glyphCache)} :
        /\ glyphCache' = warmed
        /\ dbQueries' =
              [ k \in DOMAIN warmed.cache |->
                  IF k \in DOMAIN glyphCache.cache THEN dbQueries[k] ELSE 1 ]
    /\ gcWarm' = Some(Len(gcLog))
    /\ UNCHANGED <<glyphs, gcLog, fbVars, aqVars, tileVars, renderVars, layout, tcCall,
                   workerPool, worldVars, dbVars, ioVars>>

\* A select call made on a cache that may or may not have been warmed.
GlyphCacheWarmSelect(params) ==
    LET r == GCSelect(glyphs, glyphCache, params)
    IN  /\ Len(gcLog) < MaxWarmSelects
        /\ glyphCache' = r.gc
        /\ gcLog' = Append(gcLog, [ key |-> r.key, result |-> r.result, miss |-> r.miss,
                                    hits |-> r.gc.hits, misses |-> r.gc.misses ])
        /\ dbQueries' = IF r.miss THEN (r.key :> 1) @@ dbQueries ELSE dbQueries
        /\ UNCHANGED <<glyphs, fbVars, aqVars, tileVars, renderVars, unitVars, worldVars, dbVars, ioVars>>

(***************************************************************************)
(* The render worker's shading: initGlyphCache, getChar and renderTile     *)
(***************************************************************************)

\* Bound: the render_tile messages the workers of one pool handle.
MaxWorkerMessages == 2

\* The glyph set a worker loads when it can open the GlyphDB at dbPath.
WorkerGlyphs == LoadGlyphDB(RenderGlyphRows)

\* initGlyphCache: a GlyphCache over the GlyphDB, or null (None) when the
\* constructor of GlyphDB throws.
InitWorkerGlyphCache(opens) == IF opens THEN Some(NewGlyphCache) ELSE None

\* getChar that never uses a glyph cache and reads RAMP one place too far.
GetCharOffByOne(wc, brightness, normalZ, roughness) ==
    [ wc |-> wc, char |-> RampChar(RampIndex(brightness) + 1) ]

\* getChar: the character selected through the worker's glyph cache, or, with
\* no glyph cache, RAMP at the clamped index.  Yields the cache after the call.
GetChar(wc, brightness, normalZ, roughness) ==
    IF wc # None
    THEN LET sel == GCSelect(WorkerGlyphs, wc[1],
                             [ targetCoverage |-> brightness,
                               targetRoundness |-> Some(Abs(normalZ)),
                               targetComplexity |-> Some(roughness),
                               glyphStyle |-> "none" ])
         IN  [ wc |-> Some(sel.gc), char |-> WorkerGlyphs[sel.result].codePoint ]
    ELSE [ wc |-> wc,
           char |-> RampChar(Max(0, Min(Len(RAMP) - 1, RampIndex(brightness)))) ]

\* The body of renderTile's pixel loop for a hit.
WorkerHitCell(wc, sc, result) ==
    LET lit == ComputeLighting(result.normalZ, result.material, sc)
        got == GetChar(wc, lit.brightness, result.normalZ, result.material.roughness)
    IN  [ wc |-> got.wc,
          cell |-> [ char |-> got.char, r |-> lit.r, g |-> lit.g, b |-> lit.b,
                     brightness |-> lit.brightness ],
          hit |-> TRUE ]

\* The body of renderTile's pixel loop: createRay, raymarch, then the hit's cell
\* or the background's.
WorkerPixel(wc, sc, px, py, screenW, screenH) ==
    LET result == Raymarch(CreateRay(sc.camera, px, py, screenW, screenH), sc.entities)
    IN  IF result.hit THEN WorkerHitCell(wc, sc, result)
        ELSE [ wc |-> wc,
               cell |-> [ char |-> SPACE, r |-> sc.environment.backgroundColor.r,
                          g |-> sc.environment.backgroundColor.g,
                          b |-> sc.environment.backgroundColor.b, brightness |-> 0 ],
               hit |-> FALSE ]

\* renderTile from the tile's i-th pixel on (row-major): acc holds the glyph
\* cache, the cells and the missed cells so far.
RECURSIVE WorkerTileLoop(_, _, _, _, _, _)
WorkerTileLoop(acc, tile, sc, screenW, screenH, i) ==
    IF i > tile.width * tile.height THEN acc
    ELSE LET px == tile.x + ((i - 1) % tile.width)
             py == tile.y + ((i - 1) \div tile.width)
             out == WorkerPixel(acc.wc, sc, px, py, screenW, screenH)
         IN  WorkerTileLoop([ wc |-> out.wc, tile |-> tile,
                              cells |-> Append(acc.cells, out.cell),
                              missCells |-> IF out.hit THEN acc.missCells
                                            ELSE Append(acc.missCells, <<px, py>>) ],
                            tile, sc, screenW, screenH, i + 1)

\* The scene the loop holds after k more ticks with the camera at rest: what
\* tick does to the scene before it renders or dispatches a frame.
RECURSIVE SceneAfterTicks(_, _, _)
SceneAfterTicks(sc, bases, k) ==
    IF k = 0 THEN sc
    ELSE LET fl == UpdateLightFlicker(sc.lights, bases, sc.time + 1)
         IN  SceneAfterTicks([ sc EXCEPT !.time = @ + 1, !.lights = fl.lights,
                                          !.entities = UpdateScene(@) ],
                             fl.bases, k - 1)

\* The worker's handler of a render_tile message: renderTile, and the result
\* posted back.  The message carries tile n of the frame buffer and the scene
\* of the loop at its k-th frame.
WorkerShadeTile(w, n, k) ==
    /\ workerPool # None
    /\ workerPool[1].messages < MaxWorkerMessages
    /\ n \in DOMAIN GenerateTiles(frameBuffer.width, frameBuffer.height)
    /\ \E out \in { WorkerTileLoop(
                        [ wc |-> workerPool[1].caches[w], tile |-> <<>>, cells |-> <<>>,
                          missCells |-> <<>> ],
                        GenerateTiles(frameBuffer.width, frameBuffer.height)[n],
                        SceneAfterTicks(scene, baseIntensities, k),
                        frameBuffer.width, frameBuffer.height, 1) } :
          workerPool' = Some([ caches |-> [workerPool[1].caches EXCEPT ![w] = out.wc],
                               messages |-> workerPool[1].messages + 1,
                               last |-> Some([ worker |-> w, frame |-> k,
                                               tile |-> out.tile, cells |-> out.cells,
                                               missCells |-> out.missCells ]) ])
    /\ UNCHANGED <<fbVars, aqVars, gcVars, tileVars, renderVars, layout, tcCall, gcWarm, worldVars, dbVars, ioVars>>

(***************************************************************************)
(* The world sampler and the sphere tracer: sdf.ts, SpatialGrid, World and *)
(* Raymarch.ts.  Lengths and coordinates are in hundredths of a world      *)
(* unit, so the hit threshold 0.01 is one unit; a square root is rounded   *)
(* down to a hundredth.  Entity scales are whole factors, entities are     *)
(* unrotated (worldToLocal's three rotations by angle 0 are the identity), *)
(* and ray directions and plane normals are along an axis.                 *)
(*                                                                         *)
(* A JavaScript number that need not be finite is a record: Num(n) for the *)
(* finite value n, Infinity, NegInfinity, or NaN.                          *)
(***************************************************************************)
WorldUnit == 100

Num(n) == [kind |-> "num", v |-> n]
Infinity == [kind |-> "inf", v |-> 1]
NegInfinity == [kind |-> "inf", v |-> -1]
NaN == [kind |-> "nan", v |-> 0]

\* a < b on JavaScript numbers: false whenever an operand is NaN.
NumLess(a, b) ==
    IF a.kind = "nan" \/ b.kind = "nan" THEN FALSE
    ELSE IF a.kind = "inf" THEN a.v < 0 /\ ~(b.kind = "inf" /\ b.v < 0)
    ELSE IF b.kind = "inf" THEN b.v > 0
    ELSE a.v < b.v

\* a + b on JavaScript numbers.
NumAdd(a, b) ==
    IF a.kind = "nan" \/ b.kind = "nan" THEN NaN
    ELSE IF a.kind = "inf" /\ b.kind = "inf" THEN (IF a.v = b.v THEN a ELSE NaN)
    ELSE IF a.kind = "inf" THEN a
    ELSE IF b.kind = "inf" THEN b
    ELSE Num(a.v + b.v)

\* a * factor for a whole factor: Infinity * 0 is NaN, a negative factor
\* turns Infinity into -Infinity.
NumTimes(a, factor) ==
    IF a.kind = "nan" THEN NaN
    ELSE IF a.kind = "inf"
         THEN (IF factor = 0 THEN NaN ELSE IF factor > 0 THEN a
               ELSE IF a.v > 0 THEN NegInfinity ELSE Infinity)
    ELSE Num(a.v * factor)

\* Math.sqrt, rounded down to a whole number of units.
RECURSIVE ISqrt(_)
ISqrt(n) ==
    IF n < 2 THEN n
    ELSE LET s == 2 * ISqrt(n \div 4)
         IN  IF (s + 1) * (s + 1) <= n THEN s + 1 ELSE s

\* vec3: add, sub, mul by a scalar, dot, length, normalize (of an axis vector).
VAdd(a, b) == <<a[1] + b[1], a[2] + b[2], a[3] + b[3]>>
VSub(a, b) == <<a[1] - b[1], a[2] - b[2], a[3] - b[3]>>
VMul(a, s) == <<a[1] * s, a[2] * s, a[3] * s>>
VDot(a, b) == a[1] * b[1] + a[2] * b[2] + a[3] * b[3]
VLength(a) == ISqrt(VDot(a, a))
VNormalize(a) == <<a[1] \div VLength(a), a[2] \div VLength(a), a[3] \div VLength(a)>>

Max3(a, b, c) == Max(a, Max(b, c))
Min3(a, b, c) == Min(a, Min(b, c))

\* An sdSphere that forgets the radius.
SdSphereNoRadius(p, radius) == VLength(p)

\* sdf.ts: the four distance functions.  size and height are even numbers of
\* units, so their halves are whole.
SdSphere(p, radius) == VLength(p) - radius

SdBox(p, size) ==
    LET d == <<Abs(p[1]) - size[1] \div 2, Abs(p[2]) - size[2] \div 2,
               Abs(p[3]) - size[3] \div 2>>
        outside == VLength(<<Max(d[1], 0), Max(d[2], 0), Max(d[3], 0)>>)
        inside == Min(Max3(d[1], d[2], d[3]), 0)
    IN  outside + inside

SdPlane(p, normal) == VDot(p, VNormalize(normal))

SdCylinder(p, radius, height) ==
    LET d2 == ISqrt(p[1] * p[1] + p[3] * p[3]) - radius
        d1 == Abs(p[2]) - height \div 2
        outside == VLength(<<Max(d2, 0), Max(d1, 0), 0>>)
        inside == Min(Max(d2, d1), 0)
    IN  outside + inside

\* An evaluateSDF whose default branch returns 0, a surface everywhere.
EvaluateSDFDefaultZero(p, geometry) ==
    CASE geometry.type = "sphere"   -> Num(SdSphere(p, geometry.radius))
      [] geometry.type = "box"      -> Num(SdBox(p, geometry.size))
      [] geometry.type = "plane"    -> Num(SdPlane(p, geometry.normal))
      [] geometry.type = "cylinder" -> Num(SdCylinder(p, geometry.radius, geometry.height))
      [] OTHER                      -> Num(0)

\* evaluateSDF: the switch on the geometry tag; every other tag, 'sdf'
\* included, takes the default branch.
EvaluateSDF(p, geometry) ==
    CASE geometry.type = "sphere"   -> Num(SdSphere(p, geometry.radius))
      [] geometry.type = "box"      -> Num(SdBox(p, geometry.size))
      [] geometry.type = "plane"    -> Num(SdPlane(p, geometry.normal))
      [] geometry.type = "cylinder" -> Num(SdCylinder(p, geometry.radius, geometry.height))
      [] OTHER                      -> Infinity

\* worldToLocal for an unrotated entity: subtract the position, then divide
\* by the scale, component by component.  A division by a zero scale gives a
\* non-finite coordinate, which only a geometry without a distance function
\* is given in this model; it is written 0 here and never read.
WorldToLocal(point, transform) ==
    LET p == VSub(point, transform.position)
        over(c, s) == IF s = 0 THEN 0 ELSE c \div s
    IN  <<over(p[1], transform.scale[1]), over(p[2], transform.scale[2]),
          over(p[3], transform.scale[3])>>

\* SpatialGrid.  computeAABB of the finite geometries; the infinite ones never
\* reach it, because rebuild puts them in globalIndices first.
ComputeAABB(entity) ==
    LET pos == entity.transform.position
        scale == entity.transform.scale
        geo == entity.geometry
        half == CASE geo.type = "sphere" ->
                       LET r == geo.radius * Max3(scale[1], scale[2], scale[3])
                       IN  <<r, r, r>>
                  [] geo.type = "box" ->
                       <<(geo.size[1] \div 2) * scale[1], (geo.size[2] \div 2) * scale[2],
                         (geo.size[3] \div 2) * scale[3]>>
                  [] geo.type = "cylinder" ->
                       LET r == geo.radius * Max(scale[1], scale[3])
                       IN  <<r, (geo.height \div 2) * scale[2], r>>
    IN  [min |-> VSub(pos, half), max |-> VAdd(pos, half)]

\* hashCell: the three products and their exclusive or are taken on 32 bit
\* words, '>>> 0' reads the word as unsigned.  A word is the pair of its high
\* and low 16 bits.
HalfWord == 65536
HASH_X == 73856093
HASH_Y == 19349663
HASH_Z == 83492791

WordTimes(c, k) ==
    LET low == c * (k % HalfWord)
    IN  <<(c * (k \div HalfWord) + low \div HalfWord) % HalfWord, low % HalfWord>>

RECURSIVE BitXor(_, _)
BitXor(a, b) ==
    IF a = 0 THEN b
    ELSE IF b = 0 THEN a
    ELSE ((a + b) % 2) + 2 * BitXor(a \div 2, b \div 2)

WordXor(a, b) == <<BitXor(a[1], b[1]), BitXor(a[2], b[2])>>

HashCell(cx, cy, cz) ==
    WordXor(WordXor(WordTimes(cx, HASH_X), WordTimes(cy, HASH_Y)), WordTimes(cz, HASH_Z))

INFINITE_TYPES == {"plane", "sdf"}
CELL_SIZE == 2 * WorldUnit

\* Math.floor(c / cellSize)
CellOf(c) == c \div CELL_SIZE

RECURSIVE Ascending(_)
Ascending(S) ==
    IF S = {} THEN <<>>
    ELSE LET least == CHOOSE i \in S : \A j \in S : i <= j
         IN  <<least>> \o Ascending(S \ {least})

\* The cells (cx, cy, cz) the three nested loops of rebuild visit for a box.
BoxCells(aabb) ==
    { <<cx, cy, cz>> :
        cx \in CellOf(aabb.min[1]) .. CellOf(aabb.max[1]),
        cy \in CellOf(aabb.min[2]) .. CellOf(aabb.max[2]),
        cz \in CellOf(aabb.min[3]) .. CellOf(aabb.max[3]) }

\* The body of the innermost loop: the list of hash h is created when absent,
\* and i is pushed unless the list includes it.
CellPush(cells, h, i) ==
    IF h \in DOMAIN cells
    THEN IF \E k \in DOMAIN cells[h] : cells[h][k] = i THEN cells
         ELSE [cells EXCEPT ![h] = Append(@, i)]
    ELSE cells @@ (h :> <<i>>)

\* The three nested loops for entity i; the lists of different hashes do not
\* depend on the order in which the cells are visited.
RECURSIVE PushCells(_, _, _)
PushCells(cells, todo, i) ==
    IF todo = {} THEN cells
    ELSE LET c == CHOOSE c \in todo : TRUE
         IN  PushCells(CellPush(cells, HashCell(c[1], c[2], c[3]), i), todo \ {c}, i)

\* The loop of rebuild over the entities from the 0-based index i.
RECURSIVE RebuildFrom(_, _, _)
RebuildFrom(grid, entities, i) ==
    IF i >= Len(entities) THEN grid
    ELSE IF entities[i + 1].geometry.type \in INFINITE_TYPES
         THEN RebuildFrom([grid EXCEPT !.globalIndices = Append(@, i)], entities, i + 1)
         ELSE RebuildFrom([grid EXCEPT !.cells = PushCells(@, BoxCells(ComputeAABB(entities[i + 1])), i)],
                          entities, i + 1)

\* A rebuild that keeps the lists of the grid it is given.
GridRebuildKeeps(grid, entities) == RebuildFrom(grid, entities, 0)

\* rebuild: cells.clear(), globalIndices = [], then the loop.
GridRebuildOf(grid, entities) ==
    RebuildFrom([cells |-> <<>>, globalIndices |-> <<>>], entities, 0)

\* new SpatialGrid(entities): empty lists, then rebuild.
GridRebuild(entities) == GridRebuildOf([cells |-> <<>>, globalIndices |-> <<>>], entities)

\* getCandidates: globalIndices, then the list of the point's one cell.
GetCandidates(grid, point) ==
    LET h == HashCell(CellOf(point[1]), CellOf(point[2]), CellOf(point[3]))
        cell == IF h \in DOMAIN grid.cells THEN grid.cells[h] ELSE <<>>
    IN  grid.globalIndices \o cell

\* new World(entities), and the world after updateEntities(entities).
NewWorld(entities) == [entities |-> entities, grid |-> GridRebuild(entities)]

\* A sample loop that replaces the closest entity on an equal distance too.
RECURSIVE SampleFromLastOnTie(_, _, _, _, _, _)
SampleFromLastOnTie(w, point, candidates, k, closestDist, closestIndex) ==
    IF k > Len(candidates) THEN [distance |-> closestDist, entityIndex |-> closestIndex]
    ELSE LET idx == candidates[k]
             entity == w.entities[idx + 1]
             localPoint == WorldToLocal(point, entity.transform)
             scale == entity.transform.scale
             dist == NumTimes(EvaluateSDF(localPoint, entity.geometry),
                              Min3(scale[1], scale[2], scale[3]))
         IN  IF NumLess(dist, closestDist) \/ (dist = closestDist /\ dist.kind = "num")
             THEN SampleFromLastOnTie(w, point, candidates, k + 1, dist, idx)
             ELSE SampleFromLastOnTie(w, point, candidates, k + 1, closestDist, closestIndex)

\* World.sample: the loop over the candidates from position k, keeping the
\* first strictly smallest distance.
RECURSIVE SampleFrom(_, _, _, _, _, _)
SampleFrom(w, point, candidates, k, closestDist, closestIndex) ==
    IF k > Len(candidates) THEN [distance |-> closestDist, entityIndex |-> closestIndex]
    ELSE LET idx == candidates[k]
             entity == w.entities[idx + 1]
             localPoint == WorldToLocal(point, entity.transform)
             scale == entity.transform.scale
             dist == NumTimes(EvaluateSDF(localPoint, entity.geometry),
                              Min3(scale[1], scale[2], scale[3]))
         IN  IF NumLess(dist, closestDist)
             THEN SampleFrom(w, point, candidates, k + 1, dist, idx)
             ELSE SampleFrom(w, point, candidates, k + 1, closestDist, closestIndex)

WorldSample(w, point) ==
    LET found == SampleFrom(w, point, GetCandidates(w.grid, point), 1, Infinity, -1)
    IN  [ distance |-> found.distance,
          entityId |-> IF found.entityIndex >= 0 THEN w.entities[found.entityIndex + 1].id
                       ELSE "",
          entityIndex |-> found.entityIndex ]

\* Raymarch.ts.
DEFAULT_MAX_STEPS == 64
HIT_THRESHOLD == 1
MAX_DISTANCE == 100 * WorldUnit

NORMAL_EPSILON == WorldUnit \div 1000

\* computeNormal: six samples, one on either side of the position along each
\* axis.  NORMAL_EPSILON is below the unit of length here, so each offset
\* position falls on the position itself; the samples are kept in the order
\* taken, +x, -x, +y, -y, +z, -z.
ComputeNormalSamples(pos, w) ==
    LET eps == NORMAL_EPSILON
        at == << <<pos[1] + eps, pos[2], pos[3]>>, <<pos[1] - eps, pos[2], pos[3]>>,
                 <<pos[1], pos[2] + eps, pos[3]>>, <<pos[1], pos[2] - eps, pos[3]>>,
                 <<pos[1], pos[2], pos[3] + eps>>, <<pos[1], pos[2], pos[3] - eps>> >>
    IN  [k \in 1 .. Len(at) |-> [position |-> at[k], sample |-> WorldSample(w, at[k])]]

\* One pass of raymarch's loop body from the loop state st: t, the history of
\* the samples taken by the loop and by computeNormal, and once the loop has
\* returned or left by break, done and the result.  A sampled distance is
\* never NaN (SampleFrom keeps only a distance that compared smaller) and
\* -Infinity is a hit, so a t that the loop continues with is finite.
RaymarchStep(ray, w, st) ==
    LET pos == VAdd(ray.origin, VMul(ray.direction, st.t))
        sample == WorldSample(w, pos)
        taken == Append(st.samples, [t |-> st.t, position |-> pos, sample |-> sample])
        next == NumAdd(Num(st.t), sample.distance)
    IN  IF NumLess(sample.distance, Num(HIT_THRESHOLD))
        THEN [ t |-> st.t, samples |-> taken, done |-> TRUE,
               normalSamples |-> ComputeNormalSamples(pos, w),
               result |-> [hit |-> TRUE, position |-> pos, distance |-> st.t,
                           entityIndex |-> sample.entityIndex] ]
        ELSE IF NumLess(Num(MAX_DISTANCE), next)
             THEN [ t |-> st.t, samples |-> taken, done |-> TRUE,
                    normalSamples |-> st.normalSamples, result |-> [hit |-> FALSE] ]
             ELSE [ t |-> next.v, samples |-> taken, done |-> FALSE,
                    normalSamples |-> st.normalSamples, result |-> [hit |-> FALSE] ]

\* Up to n passes of the loop, taken as two halves so that the evaluation
\* stays shallow; the passes stop at the first that is done.
RECURSIVE RaymarchSteps(_, _, _, _)
RaymarchSteps(ray, w, st, n) ==
    IF n <= 0 THEN st
    ELSE IF n = 1 THEN RaymarchStep(ray, w, st)
    ELSE LET half == RaymarchSteps(ray, w, st, n \div 2)
         IN  IF half.done THEN half ELSE RaymarchSteps(ray, w, half, n - n \div 2)

\* The state raymarch enters its loop with.
RaymarchStart ==
    [t |-> 0, samples |-> <<>>, normalSamples |-> <<>>, done |-> FALSE, result |-> [hit |-> FALSE]]

\* The result raymarch returns from the loop state it ended in, with the
\* samples it took on the way.
RaymarchResultOf(end) ==
    IF end.result.hit
    THEN [ hit |-> TRUE, position |-> end.result.position,
           distance |-> end.result.distance,
           entityIndex |-> end.result.entityIndex, samples |-> end.samples,
           normalSamples |-> end.normalSamples ]
    ELSE [hit |-> FALSE, samples |-> end.samples, normalSamples |-> end.normalSamples]

\* A loop that runs while i <= maxSteps.
RaymarchWorldExtraPass(ray, w, maxSteps) ==
    RaymarchResultOf(RaymarchSteps(ray, w, RaymarchStart, maxSteps + 1))

\* raymarch: the loop of maxSteps passes; falling out of it is a miss.
RaymarchWorld(ray, w, maxSteps) ==
    RaymarchResultOf(RaymarchSteps(ray, w, RaymarchStart, maxSteps))

\* The worlds.  test-world.ts holds the sphere alone, scenes/test-sphere.json
\* holds it with the ground plane; a field is an entity of the generic 'sdf'
\* type, which has no distance function.
UnitScale == <<1, 1, 1>>

Sphere(radius, position) ==
    [ id |-> "sphere_1",
      transform |-> [position |-> position, scale |-> UnitScale],
      geometry |-> [type |-> "sphere", radius |-> radius] ]

TestSphere == Sphere(1 * WorldUnit, <<0, 1 * WorldUnit, 0>>)

Ground ==
    [ id |-> "ground",
      transform |-> [position |-> <<0, 0, 0>>, scale |-> UnitScale],
      geometry |-> [type |-> "plane", normal |-> <<0, 1, 0>>] ]

Field(scale) ==
    [ id |-> "field",
      transform |-> [position |-> <<0, 1 * WorldUnit, 0>>, scale |-> scale],
      geometry |-> [type |-> "sdf"] ]

SphereChoices ==
    { TestSphere, Sphere(WorldUnit \div 2, <<WorldUnit, 0, -WorldUnit>>),
      Sphere((3 * WorldUnit) \div 2, <<0, WorldUnit, 0>>) }

FieldScales == {UnitScale, <<2, 2, 2>>, <<0, 1, 1>>}

WorldChoices ==
    {<<>>, <<TestSphere, Ground>>, <<Ground>>}
    \cup { <<s>> : s \in SphereChoices }
    \cup { <<Field(a)>> : a \in FieldScales }
    \cup { <<Field(<<2, 2, 2>>), Field(<<0, 1, 1>>)>>,
           <<Field(UnitScale), TestSphere>>, <<TestSphere, Field(<<0, 1, 1>>)>> }

\* The points sampled: in y and z a lattice of world units from -1 to
\* MaxProbe, in x one coordinate in each of the cells -1, 0 and 1.
MaxProbe == 3
ProbeCoords == { c * WorldUnit : c \in (-1) .. MaxProbe }
ProbePoints ==
    { <<x, y, z>> : x \in {-(WorldUnit \div 2), 0, (5 * WorldUnit) \div 2}, y, z \in ProbeCoords }

\* The rays traced: test-raymarch.ts fires from (0, 1, 6) toward (0, 0, -1).
AxisDirections == {<<1, 0, 0>>, <<-1, 0, 0>>, <<0, 1, 0>>, <<0, -1, 0>>, <<0, 0, 1>>, <<0, 0, -1>>}
RayOrigins ==
    { <<0, 1 * WorldUnit, 6 * WorldUnit>>, <<0, 1 * WorldUnit, 0>>,
      <<0, WorldUnit \div 2, (5 * WorldUnit) \div 2>> }
RayChoices == { [origin |-> o, direction |-> d] : o \in RayOrigins, d \in AxisDirections }
MaxStepsChoices == {1, 5, 6, DEFAULT_MAX_STEPS}

\* No sample and no ray on the current entities yet.
NoWorldCall == [op |-> "none"]

\* World.updateEntities: the entities are replaced and the grid is rebuilt.
WorldUpdateEntities(entities) ==
    /\ world' = NewWorld(entities)
    /\ worldCall' = NoWorldCall
    /\ UNCHANGED <<fbVars, aqVars, gcVars, tileVars, renderVars, unitVars, dbVars, ioVars>>

\* world.sample(point)
WorldSampleAt(point) ==
    /\ worldCall' = [op |-> "sample", point |-> point, result |-> WorldSample(world, point)]
    /\ UNCHANGED <<world, fbVars, aqVars, gcVars, tileVars, renderVars, unitVars, dbVars, ioVars>>

\* raymarch(ray, world, maxSteps)
RaymarchRay(ray, maxSteps) ==
    /\ worldCall' = [op |-> "raymarch", ray |-> ray, maxSteps |-> maxSteps,
                     result |-> RaymarchWorld(ray, world, maxSteps)]
    /\ UNCHANGED <<world, fbVars, aqVars, gcVars, tileVars, renderVars, unitVars, dbVars, ioVars>>

(***************************************************************************)
(* GlyphDB.queryBest called directly, as test-sdf.ts does, with the styles *)
(* 'round' and 'angular'.                                                  *)
(***************************************************************************)
\* The rows of a database for these calls: GlyphRows, two more records whose
\* coverage lies between theirs, one rounder and one more angular, and one
\* record just below the densest.
StyleRows ==
    GlyphRows \cup
    { [codePoint |-> 111, coverage |-> 130, roundness |-> 700, complexity |-> 300,
       symmetryH |-> 900, connectedComponents |-> 1],
      [codePoint |-> 47, coverage |-> 160, roundness |-> 100, complexity |-> 200,
       symmetryH |-> 100, connectedComponents |-> 1],
      [codePoint |-> 37, coverage |-> 570, roundness |-> 400, complexity |-> 900,
       symmetryH |-> 300, connectedComponents |-> 3] }

StyleRowSeqs ==
    { rs \in UNION { [1 .. n -> StyleRows] : n \in 1 .. Min(MaxGlyphs, Cardinality(StyleRows)) } :
        \A i, j \in 1 .. Len(rs) : i # j => rs[i] # rs[j] }

\* The parameters of the calls: test-sdf.ts asks for coverage 0.5 with each
\* style and nothing else, and for coverage 0.0 and 1.0 with nothing else;
\* other coverage targets and a roundness target too.
StyleQueries ==
    { [targetCoverage |-> c, targetRoundness |-> r, targetComplexity |-> None,
       glyphStyle |-> st] :
        c \in {0, 50, 500}, r \in {None, Some(300)}, st \in {"round", "angular"} }
    \cup { [targetCoverage |-> c, targetRoundness |-> None, targetComplexity |-> None,
            glyphStyle |-> "none"] : c \in {0, 300, 800, 1000} }

NoDbCalls == [st \in {"round", "angular", "none"} |-> None]

\* db.queryBest(params): dbCalls keeps, per style, the last call and the
\* record it returned.
GlyphDBQueryBest(params) ==
    /\ glyphs # <<>>
    /\ dbCalls' = [dbCalls EXCEPT ![params.glyphStyle] =
                       Some([params |-> params, record |-> glyphs[QueryBest(glyphs, params)]])]
    /\ UNCHANGED <<glyphs, glyphCache, gcLog, dbQueries, fbVars, aqVars, tileVars,
                   renderVars, unitVars, worldVars, ioVars>>

(***************************************************************************)
(* The adaptive small buffer alone: tick's sizing of the small buffer and  *)
(* AdaptiveQuality.upscale at every scale adjust reaches                    *)
(***************************************************************************)

\* Bounds: the full buffer is 1..MaxUpscaleW wide and 1..MaxUpscaleH high.
MaxUpscaleW == 3
MaxUpscaleH == 3

\* The small buffer after renderFrameSingleThread: the frame abstracted to one
\* that writes '#' into every cell.
RenderedSmall(small) ==
    [ small EXCEPT !.chars = [ i \in DOMAIN small.chars |-> 35 ],
                   !.dirty = [ i \in DOMAIN small.dirty |-> 1 ] ]

\* RenderLoop.tick with useAdaptiveQuality and a scale below 1: the small
\* buffer is sized max(1, floor(width * scale)) x max(1, floor(height * scale)),
\* rendered into and upscaled into the full buffer, which is then presented.
AdaptiveUpscale ==
    /\ adaptive.currentScale < MaxScale
    /\ \E small \in { RenderedSmall(RenderTarget(
                          [useTemporalReuse |-> TRUE, useAdaptiveQuality |-> TRUE],
                          adaptive, frameBuffer, smallBuffer)) } :
           /\ smallBuffer' = Some(small)
           /\ frameBuffer' = FBClearDirtyFlags(Upscale(adaptive, small, frameBuffer, 0))
    /\ aqCall' = [aqCall EXCEPT !.op = "upscale"]
    /\ UNCHANGED <<adaptive, fbCall, gcVars, tileVars, scene, loopOptions, temporal,
                   baseIntensities, frameCount, frameLog, unitVars, worldVars, dbVars, ioVars>>

(***************************************************************************)
(* Lighting.ts in full: computeLighting over point, directional, spot and  *)
(* area lights.  Positions are whole world units, normals are axis unit    *)
(* vectors; distances, directions, intensities, ranges and the accumulated *)
(* channels are counted in thousandths, so a square root and a quotient    *)
(* are rounded down to a thousandth.                                       *)
(***************************************************************************)
MaxLightCoord == 2
MaxFlickerCalls == 2

\* cos(30 degrees), the spot cone of computeLighting, in thousandths
COS_CONE == 866

\* vec3 length and normalize of a vector of whole units, in thousandths
LengthT(v) == ISqrt(VDot(v, v) * 1000000)
NormalizeT(v) ==
    LET l == LengthT(v)
    IN  <<(v[1] * 1000000) \div l, (v[2] * 1000000) \div l, (v[3] * 1000000) \div l>>

\* intensity / Math.pow(dist, falloff) for a whole exponent
RECURSIVE OverPow(_, _, _)
OverPow(intensity, dist, falloff) ==
    IF falloff = 0 THEN intensity
    ELSE OverPow((intensity * 1000) \div dist, dist, falloff - 1)

\* intensity / (dist * dist)
InverseSquare(intensity, dist) == (intensity * 1000) \div ((dist * dist) \div 1000)

\* The attenuation of a point light at distance dist, without the range
\* branch of computeLighting.
PointAttenuationNoRange(light, dist) ==
    IF light.falloff # None
    THEN OverPow(light.intensity, dist, light.falloff[1])
    ELSE InverseSquare(light.intensity, dist)

\* The attenuation of a point light at distance dist: intensity / dist^falloff
\* when the light has a falloff exponent, else inverse square with the range
\* cutoff and the soft range factor.
PointAttenuation(light, dist) ==
    IF light.falloff # None
    THEN OverPow(light.intensity, dist, light.falloff[1])
    ELSE LET attenuation == InverseSquare(light.intensity, dist)
         IN  IF light.range # None
             THEN IF dist > light.range[1] THEN 0
                  ELSE LET rangeFactor == 1000 - (dist * dist)
                                                 \div ((light.range[1] * light.range[1]) \div 1000)
                       IN  (attenuation * Max(0, rangeFactor)) \div 1000
             ELSE attenuation

\* The contribution of one light to a hit point: the body of the loop of
\* computeLighting up to the colour accumulation.  A light that the loop
\* skips with continue contributes None.
LightContribution(light, hitPos, normal) ==
    CASE light.type = "point" ->
           IF light.position = None THEN None
           ELSE LET toLight == VSub(light.position[1], hitPos)
                    dist == LengthT(toLight)
                IN  IF dist = 0 THEN None
                    ELSE LET ndotl == Max(0, VDot(normal, NormalizeT(toLight)))
                         IN  Some((ndotl * PointAttenuation(light, dist)) \div 1000)
      [] light.type = "directional" ->
           IF light.direction = None THEN None
           ELSE LET dir == NormalizeT(VMul(light.direction[1], -1))
                IN  Some((Max(0, VDot(normal, dir)) * light.intensity) \div 1000)
      [] light.type = "spot" ->
           IF light.position = None \/ light.direction = None THEN None
           ELSE LET toLight == VSub(light.position[1], hitPos)
                    dist == LengthT(toLight)
                IN  IF dist = 0 THEN None
                    ELSE LET dir == NormalizeT(toLight)
                             ndotl == Max(0, VDot(normal, dir))
                             spotAngle == VDot(VMul(dir, -1), NormalizeT(light.direction[1])) \div 1000
                         IN  IF spotAngle < COS_CONE THEN Some(0)
                             ELSE Some((ndotl * (InverseSquare(light.intensity, dist))) \div 1000)
      [] OTHER -> Some(0)

\* The loop of computeLighting: the accumulated red, green and blue.
RECURSIVE AccumulateLights(_, _, _, _)
AccumulateLights(lights, hitPos, normal, i) ==
    IF i > Len(lights) THEN [r |-> 0, g |-> 0, b |-> 0]
    ELSE LET rest == AccumulateLights(lights, hitPos, normal, i + 1)
             c == LightContribution(lights[i], hitPos, normal)
         IN  IF c = None THEN rest
             ELSE [ r |-> (c[1] * lights[i].color.r) \div 255 + rest.r,
                    g |-> (c[1] * lights[i].color.g) \div 255 + rest.g,
                    b |-> (c[1] * lights[i].color.b) \div 255 + rest.b ]

\* computeLighting without the final clamps.
ComputeLightingUnclamped(hitPos, normal, material, lights, ambientLight) ==
    LET acc == AccumulateLights(lights, hitPos, normal, 1)
        add == (IF material.emissive > 0 THEN material.emissive ELSE 0) + ambientLight
        totalR == acc.r + add
        totalG == acc.g + add
        totalB == acc.b + add
    IN  [ brightness |-> (totalR + totalG + totalB) \div 3,
          r |-> (totalR * material.baseColor.r) \div 1000,
          g |-> (totalG * material.baseColor.g) \div 1000,
          b |-> (totalB * material.baseColor.b) \div 1000 ]

\* computeLighting(hitPos, normal, material, scene)
ComputeLightingFull(hitPos, normal, material, lights, ambientLight) ==
    LET acc == AccumulateLights(lights, hitPos, normal, 1)
        add == (IF material.emissive > 0 THEN material.emissive ELSE 0) + ambientLight
        totalR == acc.r + add
        totalG == acc.g + add
        totalB == acc.b + add
    IN  [ brightness |-> Clamp((totalR + totalG + totalB) \div 3, 0, 1000),
          r |-> Clamp((totalR * material.baseColor.r) \div 1000, 0, 255),
          g |-> Clamp((totalG * material.baseColor.g) \div 1000, 0, 255),
          b |-> Clamp((totalB * material.baseColor.b) \div 1000, 0, 255) ]

\* The lights a scene may hold.
White == [r |-> 255, g |-> 255, b |-> 255]
Warm == [r |-> 255, g |-> 128, b |-> 0]
StrongWave == [speed |-> 1, amplitude |-> 1500, noise |-> "wave"]
PointLight(range, falloff, flicker) ==
    [ type |-> "point", position |-> Some(<<0, 0, 2>>), direction |-> None, intensity |-> 2000,
      color |-> White, range |-> range, falloff |-> falloff, flicker |-> flicker ]
PointLights ==
    { PointLight(range, falloff, None) :
        range \in {None, Some(2500)}, falloff \in {None, Some(1), Some(2)} }
    \cup { PointLight(None, None, Some(StrongWave)) }
OtherLights ==
    { [ type |-> "point", position |-> None, direction |-> None, intensity |-> 2000,
        color |-> White, range |-> None, falloff |-> None, flicker |-> None ],
      [ type |-> "directional", position |-> None, direction |-> Some(<<0, 0, -1>>),
        intensity |-> 600, color |-> Warm, range |-> None, falloff |-> None,
        flicker |-> Some(StrongWave) ],
      [ type |-> "directional", position |-> None, direction |-> None,
        intensity |-> 600, color |-> Warm, range |-> None, falloff |-> None, flicker |-> None ],
      [ type |-> "spot", position |-> Some(<<0, 0, 2>>), direction |-> Some(<<0, 0, -1>>),
        intensity |-> 3000, color |-> Warm, range |-> None, falloff |-> None, flicker |-> None ],
      [ type |-> "area", position |-> Some(<<0, 0, 1>>), direction |-> Some(<<0, 0, -1>>),
        intensity |-> 5000, color |-> White, range |-> None, falloff |-> None, flicker |-> None ] }
LightLists ==
    { <<l>> : l \in PointLights \cup OtherLights }
    \cup { <<l1, l2>> : l1 \in PointLights, l2 \in OtherLights }
LightingScenes ==
    { [ time |-> 0, lights |-> lights, environment |-> [ambientLight |-> 100] ] :
        lights \in LightLists }

\* The times of the updateLightFlicker calls, in quarter periods of the wave.
FlickerTimes == {0, 1, 3}

HitPoints == { <<x, 0, z>> : x \in 0..MaxLightCoord, z \in {0, 2} }
HitNormals == { <<0, 0, 1>>, <<1, 0, 0>> }
HitMaterials ==
    { [ baseColor |-> [r |-> 200, g |-> 100, b |-> 50], emissive |-> e ] : e \in {0, 300} }

\* The log of a scene as constructed: no call yet, the intensities the
\* lights were constructed with, and their intensities before the last
\* updateLightFlicker call.
StartLightLog(sc) ==
    [ op |-> "none", initial |-> [ i \in DOMAIN sc.lights |-> sc.lights[i].intensity ],
      before |-> [ i \in DOMAIN sc.lights |-> sc.lights[i].intensity ],
      hitPos |-> <<0, 0, 0>>, normal |-> <<0, 0, 1>>, material |-> None, result |-> None ]

\* updateLightFlicker(scene.lights, time)
LightFlicker(time) ==
    /\ frameCount < MaxFlickerCalls
    /\ LET out == UpdateLightFlicker(scene.lights, baseIntensities, time)
       IN  /\ scene' = [scene EXCEPT !.time = time, !.lights = out.lights]
           /\ baseIntensities' = out.bases
    /\ frameCount' = frameCount + 1
    /\ lightCall' = [lightCall EXCEPT
                        !.op = "updateLightFlicker",
                        !.before = [ i \in DOMAIN scene.lights |-> scene.lights[i].intensity ]]
    /\ UNCHANGED <<fbVars, aqVars, gcVars, tileVars, loopOptions, temporal, smallBuffer,
                   frameLog, unitVars, worldVars, dbVars, inputState, keysHeld, pointerLockElement>>

\* computeLighting(hitPos, normal, material, scene)
LightingCompute(hitPos, normal, material) ==
    /\ lightCall' = [lightCall EXCEPT
                        !.op = "computeLighting", !.hitPos = hitPos, !.normal = normal,
                        !.material = Some(material),
                        !.result = Some(ComputeLightingFull(hitPos, normal, material, scene.lights,
                                                            scene.environment.ambientLight))]
    /\ UNCHANGED <<fbVars, aqVars, gcVars, tileVars, renderVars, unitVars, worldVars, dbVars,
                   inputState, keysHeld, pointerLockElement>>

(***************************************************************************)
(* The SpatialGrid alone: construction, updateEntities and getCandidates   *)
(* over spheres, boxes, cylinders, planes and generic fields.              *)
(***************************************************************************)
MaxGridEntities == 3

Box(size, position) ==
    [ id |-> "box",
      transform |-> [position |-> position, scale |-> UnitScale],
      geometry |-> [type |-> "box", size |-> size] ]

Cylinder(radius, height, position) ==
    [ id |-> "cylinder",
      transform |-> [position |-> position, scale |-> UnitScale],
      geometry |-> [type |-> "cylinder", radius |-> radius, height |-> height] ]

\* The entities a grid is built over: every list takes some of these, in
\* this order.
GridEntities ==
    << Ground,
       Sphere(WorldUnit, <<0, 0, 0>>),
       Box(<<2 * WorldUnit, WorldUnit, WorldUnit>>,
           <<3 * WorldUnit, WorldUnit \div 2, WorldUnit \div 2>>),
       Field(UnitScale),
       Cylinder(WorldUnit \div 2, 4 * WorldUnit, <<0, 0, 0>>),
       [ Sphere(WorldUnit, <<3 * WorldUnit, WorldUnit, WorldUnit>>)
             EXCEPT !.transform.scale = <<2, 1, 1>> ] >>

GridEntityLists ==
    { [ k \in 1 .. Cardinality(S) |-> GridEntities[Ascending(S)[k]] ] :
        S \in { T \in SUBSET (DOMAIN GridEntities) : Cardinality(T) <= MaxGridEntities } }

GridProbes ==
    { <<x, y, z>> : x \in {-(3 * WorldUnit) \div 2, WorldUnit \div 2, (5 * WorldUnit) \div 2},
                    y, z \in {-(WorldUnit \div 2), WorldUnit \div 2} }

\* SpatialGrid.updateEntities(entities): the entities are replaced and the
\* grid is rebuilt.  stale records that the build before held other entities.
GridUpdateEntities(entities) ==
    /\ world' = [entities |-> entities, grid |-> GridRebuildOf(world.grid, entities)]
    /\ worldCall' = [ op |-> "rebuild", stale |-> world.entities # <<>> /\ world.entities # entities,
                      point |-> <<0, 0, 0>>, result |-> <<>> ]
    /\ UNCHANGED <<fbVars, aqVars, gcVars, tileVars, renderVars, unitVars, dbVars, ioVars>>

\* SpatialGrid.getCandidates(point)
GridGetCandidates(point) ==
    /\ worldCall' = [ op |-> "getCandidates", stale |-> FALSE, point |-> point,
                      result |-> GetCandidates(world.grid, point) ]
    /\ UNCHANGED <<world, fbVars, aqVars, gcVars, tileVars, renderVars, unitVars, dbVars, ioVars>>

(***************************************************************************)
(* The animation step of the RenderLoop over a World: updateScene moves    *)
(* the entities and has the grid rebuilt, then the frame samples the       *)
(* world.  dt is a whole number of time units.                             *)
(***************************************************************************)
MaxSceneTicks == 3

HasVelocity(entity) == "velocity" \in DOMAIN entity
HasAngularVelocity(entity) == "angularVelocity" \in DOMAIN entity

\* The loop of updateScene from the entity at place i: acc holds the entities
\* so far, entitiesChanged, and the log of the entities moved.
RECURSIVE MoveEntities(_, _, _)
MoveEntities(acc, dt, i) ==
    IF i > Len(acc.entities) THEN acc
    ELSE LET entity == acc.entities[i]
             moved == IF HasVelocity(entity)
                      THEN [entity EXCEPT !.transform.position = VAdd(@, VMul(entity.velocity, dt))]
                      ELSE entity
             turned == IF HasAngularVelocity(entity)
                       THEN [moved EXCEPT !.transform.rotation =
                                              VAdd(@, VMul(entity.angularVelocity, dt))]
                       ELSE moved
             touched == HasVelocity(entity) \/ HasAngularVelocity(entity)
         IN  MoveEntities([ entities |-> [acc.entities EXCEPT ![i] = turned],
                            entitiesChanged |-> acc.entitiesChanged \/ touched,
                            log |-> IF touched THEN Append(acc.log, [ev |-> "move", index |-> i - 1])
                                    ELSE acc.log ],
                          dt, i + 1)

\* An updateScene that moves the entities and leaves the grid alone.
UpdateSceneNoRebuild(w, dt) ==
    LET m == MoveEntities([entities |-> w.entities, entitiesChanged |-> FALSE, log |-> <<>>], dt, 1)
    IN  [entities |-> m.entities, grid |-> w.grid, log |-> m.log]

\* updateScene(dt): the loop, then world.updateEntities when an entity has a
\* velocity or an angular velocity.
UpdateSceneWorld(w, dt) ==
    LET m == MoveEntities([entities |-> w.entities, entitiesChanged |-> FALSE, log |-> <<>>], dt, 1)
    IN  IF m.entitiesChanged
        THEN [ entities |-> m.entities, grid |-> GridRebuildOf(w.grid, m.entities),
               log |-> Append(m.log, [ev |-> "rebuild", index |-> -1]) ]
        ELSE [entities |-> m.entities, grid |-> w.grid, log |-> m.log]

\* The entities of an animated scene: the ground, a sphere at rest, a sphere
\* that moves one unit along x per unit of time, a sphere that turns, and a
\* sphere with the velocity zero.
SceneSphere(position) ==
    [ id |-> "sphere_1",
      transform |-> [position |-> position, rotation |-> <<0, 0, 0>>, scale |-> UnitScale],
      geometry |-> [type |-> "sphere", radius |-> WorldUnit] ]
SceneEntities ==
    << Ground,
       SceneSphere(<<0, WorldUnit, 0>>) @@ [velocity |-> <<WorldUnit, 0, 0>>],
       SceneSphere(<<0, WorldUnit, 0>>),
       SceneSphere(<<2 * WorldUnit, WorldUnit, 0>>) @@ [angularVelocity |-> <<0, 1, 0>>],
       SceneSphere(<<-WorldUnit, 0, 0>>) @@ [velocity |-> <<0, 0, 0>>] >>
SceneEntityLists ==
    { [ k \in 1 .. Cardinality(S) |-> SceneEntities[Ascending(S)[k]] ] :
        S \in { T \in SUBSET (DOMAIN SceneEntities) : Cardinality(T) \in 1 .. 2 } }
ScenePoints == { <<x, WorldUnit, 0>> : x \in {0, (5 * WorldUnit) \div 2} }

\* One tick: updateScene(dt), then the frame's first sample of the world.
SceneTick(dt, point) ==
    /\ frameCount < MaxSceneTicks
    /\ LET u == UpdateSceneWorld(world, dt)
       IN  /\ world' = [entities |-> u.entities, grid |-> u.grid]
           /\ worldCall' = [ op |-> "tick",
                             transformsChanged |-> u.entities # world.entities,
                             gridChanged |-> u.grid # world.grid,
                             log |-> Append(u.log, [ev |-> "sample", index |-> -1]),
                             observed |-> u.grid, point |-> point,
                             result |-> WorldSample([entities |-> u.entities, grid |-> u.grid],
                                                    point) ]
    /\ frameCount' = frameCount + 1
    /\ UNCHANGED <<fbVars, aqVars, gcVars, tileVars, scene, loopOptions, temporal, smallBuffer,
                   baseIntensities, frameLog, unitVars, dbVars, ioVars>>

(***************************************************************************)
(* The KeyboardListener on an InputState: keydown and keyup events of the  *)
(* window, and the click that asks for the pointer lock.                   *)
(***************************************************************************)
\* The most keys held down at once.
MaxKeysHeld == 3

\* The codes of the events: the eight movement keys, Space (one of GAME_KEYS,
\* without a case in updateKey), and Escape.
KeyCodes ==
    { "KeyW", "KeyA", "KeyS", "KeyD", "ArrowUp", "ArrowDown", "ArrowLeft", "ArrowRight",
      "Space", "Escape" }

\* KeyboardListener.updateKey: the flag of the code's case is assigned
\* pressed; a code without a case changes nothing.
UpdateKey(state, code, pressed) ==
    CASE code \in {"KeyW", "ArrowUp"} -> [state EXCEPT !.forward = pressed]
      [] code \in {"KeyS", "ArrowDown"} -> [state EXCEPT !.backward = pressed]
      [] code \in {"KeyA", "ArrowLeft"} -> [state EXCEPT !.left = pressed]
      [] code \in {"KeyD", "ArrowRight"} -> [state EXCEPT !.right = pressed]
      [] OTHER -> state

\* KeyboardListener.onKeyDown for a key pressed or, held already, repeating:
\* updateKey, preventDefault on the event of a game key (which leaves no
\* state behind), and on Escape document.exitPointerLock().
KeyDown(code) ==
    /\ Cardinality(keysHeld \cup {code}) <= MaxKeysHeld
    /\ keysHeld' = keysHeld \cup {code}
    /\ inputState' = UpdateKey(inputState, code, TRUE)
    /\ pointerLockElement' = IF code = "Escape" THEN "none" ELSE pointerLockElement
    /\ UNCHANGED <<lightCall, fbVars, aqVars, gcVars, tileVars, renderVars, unitVars,
                   worldVars, dbVars>>

\* KeyboardListener.onKeyUp for a key that was held.
KeyUp(code) ==
    /\ code \in keysHeld
    /\ keysHeld' = keysHeld \ {code}
    /\ inputState' = UpdateKey(inputState, code, FALSE)
    /\ UNCHANGED <<lightCall, pointerLockElement, fbVars, aqVars, gcVars, tileVars,
                   renderVars, unitVars, worldVars, dbVars>>

\* MouseListener.requestLock on a click: the browser grants the lock or
\* leaves things as they are.
MouseClick(granted) ==
    /\ pointerLockElement' = IF granted THEN "target" ELSE pointerLockElement
    /\ UNCHANGED <<lightCall, inputState, keysHeld, fbVars, aqVars, gcVars, tileVars,
                   renderVars, unitVars, worldVars, dbVars>>

(***************************************************************************)
(* Specifications                                                          *)
(***************************************************************************)

\* The values of the parts of the state a specification leaves alone.
NoLightCall == [op |-> "none"]

\* InputState as constructed: no movement key held.
NewInputState == [forward |-> FALSE, backward |-> FALSE, left |-> FALSE, right |-> FALSE]

AdaptiveAtStart == NewAdaptiveQuality(DefaultTargetFPS)
NoWorkerQueues == [w \in Workers |-> <<>>]
DefaultOptions == [useTemporalReuse |-> TRUE, useAdaptiveQuality |-> FALSE]
NoFrameLog ==
    [ frame |-> 0, width |-> 0, height |-> 0, camera |-> [position |-> 0, rotation |-> 0],
      traced |-> {}, reshaded |-> {}, dropped |-> {},
      temporalBefore |-> NewTemporalCache(1, 1), small |-> FALSE,
      storedBefore |-> FBStored(NewFrameBuffer(1, 1)),
      storedPose |-> [ i \in 0 .. (RenderWidth * RenderHeight - 1) |->
                         [position |-> 0, rotation |-> 0] ],
      plain |-> [ fb |-> NewFrameBuffer(RenderWidth, RenderHeight), gc |-> NewGlyphCache ],
      prev |-> NoFrame ]

NextFrameBuffer ==
    \/ \E x \in 0 .. (FBWidth - 1), y \in 0 .. (FBHeight - 1), char \in FBChars,
          r \in FBReds, g \in FBGreens, b \in FBBlues, br \in FBBrightnesses :
            FrameBufferSet(x, y, char, r, g, b, br)
    \/ FrameBufferClearDirtyFlags

InitFrameBuffer ==
    /\ frameBuffer = NewFrameBuffer(FBWidth, FBHeight)
    /\ fbCall = NoCall
    /\ adaptive = AdaptiveAtStart /\ aqCall = NoAdjust
    /\ glyphs = <<>> /\ glyphCache = NewGlyphCache /\ gcLog = <<>> /\ dbQueries = <<>>
    /\ tileFrame = 0 /\ tilePhase = "idle" /\ workerInbox = NoWorkerQueues
    /\ workerOutbox = NoWorkerQueues /\ tileListeners = NoWorkerQueues
    /\ tilePending = {} /\ tileWritten = {} /\ tileSeen = <<>>
    /\ scene = MakeScene(FALSE, FALSE, FALSE) /\ loopOptions = DefaultOptions
    /\ temporal = NewTemporalCache(1, 1) /\ smallBuffer = None
    /\ baseIntensities = <<>> /\ frameCount = 0 /\ frameLog = NoFrameLog
    /\ layout = None
    /\ tcCall = None
    /\ gcWarm = None
    /\ workerPool = None
    /\ world = None
    /\ worldCall = None
    /\ dbCalls = None
    /\ lightCall = NoLightCall
    /\ inputState = NewInputState
    /\ keysHeld = {}
    /\ pointerLockElement = "none"

\* FrameBuffer alone: set and clearDirtyFlags calls in any order.
SpecFrameBuffer == InitFrameBuffer /\ [][NextFrameBuffer]_vars

NextAdaptive ==
    \/ \E ft \in 0 .. MaxFrameTime : AdaptiveAdjust(ft)
    \/ \E fps \in TargetFPSChoices : AdaptiveSetTargetFPS(fps)

InitAdaptive ==
    /\ adaptive = AdaptiveAtStart
    /\ aqCall = NoAdjust
    /\ frameBuffer = NewFrameBuffer(1, 1) /\ fbCall = NoCall
    /\ glyphs = <<>> /\ glyphCache = NewGlyphCache /\ gcLog = <<>> /\ dbQueries = <<>>
    /\ tileFrame = 0 /\ tilePhase = "idle" /\ workerInbox = NoWorkerQueues
    /\ workerOutbox = NoWorkerQueues /\ tileListeners = NoWorkerQueues
    /\ tilePending = {} /\ tileWritten = {} /\ tileSeen = <<>>
    /\ scene = MakeScene(FALSE, FALSE, FALSE) /\ loopOptions = DefaultOptions
    /\ temporal = NewTemporalCache(1, 1) /\ smallBuffer = None
    /\ baseIntensities = <<>> /\ frameCount = 0 /\ frameLog = NoFrameLog
    /\ layout = None
    /\ tcCall = None
    /\ gcWarm = None
    /\ workerPool = None
    /\ world = None
    /\ worldCall = None
    /\ dbCalls = None
    /\ lightCall = NoLightCall
    /\ inputState = NewInputState
    /\ keysHeld = {}
    /\ pointerLockElement = "none"

\* AdaptiveQuality alone: adjust and setTargetFPS calls in any order.
SpecAdaptive == InitAdaptive /\ [][NextAdaptive]_vars

NextGlyphCache ==
    \/ \E params \in GCParams : GlyphCacheSelect(params)
    \/ GlyphCacheClearCache

InitGlyphCache ==
    /\ glyphs \in { LoadGlyphDB(rs) : rs \in RowSeqs }
    /\ glyphCache = NewGlyphCache
    /\ gcLog = <<>>
    /\ dbQueries = <<>>
    /\ frameBuffer = NewFrameBuffer(1, 1) /\ fbCall = NoCall
    /\ adaptive = AdaptiveAtStart /\ aqCall = NoAdjust
    /\ tileFrame = 0 /\ tilePhase = "idle" /\ workerInbox = NoWorkerQueues
    /\ workerOutbox = NoWorkerQueues /\ tileListeners = NoWorkerQueues
    /\ tilePending = {} /\ tileWritten = {} /\ tileSeen = <<>>
    /\ scene = MakeScene(FALSE, FALSE, FALSE) /\ loopOptions = DefaultOptions
    /\ temporal = NewTemporalCache(1, 1) /\ smallBuffer = None
    /\ baseIntensities = <<>> /\ frameCount = 0 /\ frameLog = NoFrameLog
    /\ layout = None
    /\ tcCall = None
    /\ gcWarm = None
    /\ workerPool = None
    /\ world = None
    /\ worldCall = None
    /\ dbCalls = None
    /\ lightCall = NoLightCall
    /\ inputState = NewInputState
    /\ keysHeld = {}
    /\ pointerLockElement = "none"

\* GlyphCache over a loaded GlyphDB: select and clearCache calls in any order.
SpecGlyphCache == InitGlyphCache /\ [][NextGlyphCache]_vars

NextTile ==
    \/ TileTick
    \/ \E w \in Workers : WorkerRenderTile(w)
    \/ \E w \in Workers : MainReceive(w)
    \/ TileRestart

InitTile ==
    /\ frameBuffer = NewFrameBuffer(TileScreenW, TileScreenH)
    /\ tileFrame = 0
    /\ tilePhase = "idle"
    /\ workerInbox = NoWorkerQueues
    /\ workerOutbox = NoWorkerQueues
    /\ tileListeners = NoWorkerQueues
    /\ tilePending = {}
    /\ tileWritten = {}
    /\ tileSeen = <<>>
    /\ fbCall = NoCall
    /\ adaptive = AdaptiveAtStart /\ aqCall = NoAdjust
    /\ glyphs = <<>> /\ glyphCache = NewGlyphCache /\ gcLog = <<>> /\ dbQueries = <<>>
    /\ scene = MakeScene(FALSE, FALSE, FALSE) /\ loopOptions = DefaultOptions
    /\ temporal = NewTemporalCache(1, 1) /\ smallBuffer = None
    /\ baseIntensities = <<>> /\ frameCount = 0 /\ frameLog = NoFrameLog
    /\ layout = None
    /\ tcCall = None
    /\ gcWarm = None
    /\ workerPool = None
    /\ world = None
    /\ worldCall = None
    /\ dbCalls = None
    /\ lightCall = NoLightCall
    /\ inputState = NewInputState
    /\ keysHeld = {}
    /\ pointerLockElement = "none"

\* Tile-parallel mode: the main thread's ticks and message events and the
\* workers' message handlers, interleaved in any order.
SpecTile == InitTile /\ [][NextTile]_vars

\* Without adaptive quality a tick reads neither the frame time nor the time
\* passed since frameStart, so one value of each stands for all.  The camera
\* moves below the threshold are explored on the loop without adaptive quality.
TickInputs(opts) ==
    IF opts.useAdaptiveQuality
    THEN { m \in CameraMoves : m = 0 \/ m > CAMERA_THRESHOLD } \X FrameTimes \X ElapsedChoices
    ELSE CameraMoves \X {20} \X {FRAME_DEADLINE_MS}

NextRender ==
    \E inp \in TickInputs(loopOptions) : Tick(inp[1], inp[2], inp[3])

InitRender ==
    /\ scene \in SceneChoices
    /\ loopOptions \in [useTemporalReuse : BOOLEAN, useAdaptiveQuality : BOOLEAN]
    /\ frameBuffer = NewFrameBuffer(RenderWidth, RenderHeight)
    /\ temporal = NewTemporalCache(RenderWidth, RenderHeight)
    /\ adaptive = AdaptiveAtStart
    /\ glyphs = LoadGlyphDB(RenderGlyphRows)
    /\ glyphCache = NewGlyphCache
    /\ smallBuffer = None
    /\ baseIntensities = <<>>
    /\ frameCount = 0
    /\ frameLog = NoFrameLog
    /\ fbCall = NoCall /\ aqCall = NoAdjust /\ gcLog = <<>> /\ dbQueries = <<>>
    /\ tileFrame = 0 /\ tilePhase = "idle" /\ workerInbox = NoWorkerQueues
    /\ workerOutbox = NoWorkerQueues /\ tileListeners = NoWorkerQueues
    /\ tilePending = {} /\ tileWritten = {} /\ tileSeen = <<>>
    /\ layout = None
    /\ tcCall = None
    /\ gcWarm = None
    /\ workerPool = None
    /\ world = None
    /\ worldCall = None
    /\ dbCalls = None
    /\ lightCall = NoLightCall
    /\ inputState = NewInputState
    /\ keysHeld = {}
    /\ pointerLockElement = "none"

\* The single-threaded render loop on every scene and option choice: ticks with
\* any camera move, frame time and deadline.
SpecRender == InitRender /\ [][NextRender]_vars

NextTileLayout == \E n \in 1 .. (MaxLayoutW * MaxLayoutH) : LayoutWriteTile(n)

InitTileLayout ==
    /\ layout \in { Some(NewLayout(w, h)) : w \in 1 .. MaxLayoutW, h \in 1 .. MaxLayoutH }
    /\ frameBuffer = NewFrameBuffer(FBWidth, FBHeight)
    /\ fbCall = NoCall
    /\ adaptive = AdaptiveAtStart /\ aqCall = NoAdjust
    /\ glyphs = <<>> /\ glyphCache = NewGlyphCache /\ gcLog = <<>> /\ dbQueries = <<>>
    /\ tileFrame = 0 /\ tilePhase = "idle" /\ workerInbox = NoWorkerQueues
    /\ workerOutbox = NoWorkerQueues /\ tileListeners = NoWorkerQueues
    /\ tilePending = {} /\ tileWritten = {} /\ tileSeen = <<>>
    /\ scene = MakeScene(FALSE, FALSE, FALSE) /\ loopOptions = DefaultOptions
    /\ temporal = NewTemporalCache(1, 1) /\ smallBuffer = None
    /\ baseIntensities = <<>> /\ frameCount = 0 /\ frameLog = NoFrameLog
    /\ tcCall = None
    /\ gcWarm = None
    /\ workerPool = None
    /\ world = None
    /\ worldCall = None
    /\ dbCalls = None
    /\ lightCall = NoLightCall
    /\ inputState = NewInputState
    /\ keysHeld = {}
    /\ pointerLockElement = "none"

\* The tile layout on every output size up to the bounds: the results of the
\* tiles are written in any order.
SpecTileLayout == InitTileLayout /\ [][NextTileLayout]_vars

NextTemporalCache ==
    \/ \E x \in 0 .. (MaxCacheW - 1), y \in 0 .. (MaxCacheH - 1), hit \in CacheHits :
            TemporalStore(x, y, hit)
    \/ \E x \in 0 .. (MaxCacheW - 1), y \in 0 .. (MaxCacheH - 1) : TemporalStoreMiss(x, y)
    \/ TemporalInvalidateAll
    \/ \E w \in 1 .. MaxCacheW, h \in 1 .. MaxCacheH : TemporalResize(w, h)

InitTemporalCache ==
    /\ temporal \in { NewTemporalCache(w, h) : w \in 1 .. MaxCacheW, h \in 1 .. MaxCacheH }
    /\ tcCall = Some(NoCacheCall)
    /\ frameBuffer = NewFrameBuffer(FBWidth, FBHeight)
    /\ fbCall = NoCall
    /\ adaptive = AdaptiveAtStart /\ aqCall = NoAdjust
    /\ glyphs = <<>> /\ glyphCache = NewGlyphCache /\ gcLog = <<>> /\ dbQueries = <<>>
    /\ tileFrame = 0 /\ tilePhase = "idle" /\ workerInbox = NoWorkerQueues
    /\ workerOutbox = NoWorkerQueues /\ tileListeners = NoWorkerQueues
    /\ tilePending = {} /\ tileWritten = {} /\ tileSeen = <<>>
    /\ scene = MakeScene(FALSE, FALSE, FALSE) /\ loopOptions = DefaultOptions
    /\ smallBuffer = None
    /\ baseIntensities = <<>> /\ frameCount = 0 /\ frameLog = NoFrameLog
    /\ layout = None
    /\ gcWarm = None
    /\ workerPool = None
    /\ world = None
    /\ worldCall = None
    /\ dbCalls = None
    /\ lightCall = NoLightCall
    /\ inputState = NewInputState
    /\ keysHeld = {}
    /\ pointerLockElement = "none"

\* A TemporalCache of any size up to the bounds: store, storeMiss, invalidateAll
\* and resize calls in any order.
SpecTemporalCache == InitTemporalCache /\ [][NextTemporalCache]_vars

NextGlyphWarmup ==
    \/ \E params \in WarmParams : GlyphCacheWarmSelect(params)
    \/ GlyphCacheWarmup

InitGlyphWarmup ==
    /\ glyphs \in { LoadGlyphDB(rs) : rs \in RowSeqs }
    /\ glyphCache = NewGlyphCache
    /\ gcLog = <<>>
    /\ dbQueries = <<>>
    /\ gcWarm = None
    /\ frameBuffer = NewFrameBuffer(1, 1) /\ fbCall = NoCall
    /\ adaptive = AdaptiveAtStart /\ aqCall = NoAdjust
    /\ tileFrame = 0 /\ tilePhase = "idle" /\ workerInbox = NoWorkerQueues
    /\ workerOutbox = NoWorkerQueues /\ tileListeners = NoWorkerQueues
    /\ tilePending = {} /\ tileWritten = {} /\ tileSeen = <<>>
    /\ scene = MakeScene(FALSE, FALSE, FALSE) /\ loopOptions = DefaultOptions
    /\ temporal = NewTemporalCache(1, 1) /\ smallBuffer = None
    /\ baseIntensities = <<>> /\ frameCount = 0 /\ frameLog = NoFrameLog
    /\ layout = None
    /\ tcCall = None
    /\ workerPool = None
    /\ world = None
    /\ worldCall = None
    /\ dbCalls = None
    /\ lightCall = NoLightCall
    /\ inputState = NewInputState
    /\ keysHeld = {}
    /\ pointerLockElement = "none"

\* GlyphCache over a loaded GlyphDB: warmup once, before, between or after
\* select calls.
SpecGlyphWarmup == InitGlyphWarmup /\ [][NextGlyphWarmup]_vars

\* Without workers the loop renders frames itself; with workers, each worker
\* handles render_tile messages for any tile and any frame of the scene.
NextFallback ==
    \/ /\ workerPool = None
       /\ \E move \in CameraMoves, frameTime \in FrameTimes, elapsed \in ElapsedChoices :
            Tick(move, frameTime, elapsed)
    \/ \E w \in Workers, n \in 1 .. (RenderWidth * RenderHeight), k \in 1 .. MaxFrames :
            WorkerShadeTile(w, n, k)

InitFallback ==
    /\ scene \in SceneChoices
    /\ loopOptions \in [useTemporalReuse : BOOLEAN, useAdaptiveQuality : {FALSE}]
    /\ glyphs = <<>>
    /\ workerPool \in {None} \cup
            { Some([ caches |-> [w \in Workers |-> InitWorkerGlyphCache(opens[w])],
                     messages |-> 0, last |-> None ]) : opens \in [Workers -> BOOLEAN] }
    /\ frameBuffer = NewFrameBuffer(RenderWidth, RenderHeight)
    /\ temporal = NewTemporalCache(RenderWidth, RenderHeight)
    /\ adaptive = AdaptiveAtStart
    /\ glyphCache = NewGlyphCache
    /\ smallBuffer = None
    /\ baseIntensities = <<>>
    /\ frameCount = 0
    /\ frameLog = NoFrameLog
    /\ fbCall = NoCall /\ aqCall = NoAdjust /\ gcLog = <<>> /\ dbQueries = <<>>
    /\ tileFrame = 0 /\ tilePhase = "idle" /\ workerInbox = NoWorkerQueues
    /\ workerOutbox = NoWorkerQueues /\ tileListeners = NoWorkerQueues
    /\ tilePending = {} /\ tileWritten = {} /\ tileSeen = <<>>
    /\ layout = None
    /\ tcCall = None
    /\ gcWarm = None
    /\ world = None
    /\ worldCall = None
    /\ dbCalls = None
    /\ lightCall = NoLightCall
    /\ inputState = NewInputState
    /\ keysHeld = {}
    /\ pointerLockElement = "none"

\* The shading when the glyph database cannot be opened: the single-threaded
\* loop whose GlyphDB did not open at startup (as bootstrap builds it, without
\* adaptive quality), or a pool of render workers each of which did or did not
\* open its own.
SpecFallback == InitFallback /\ [][NextFallback]_vars

NextWorld ==
    \/ \E entities \in WorldChoices : WorldUpdateEntities(entities)
    \/ \E point \in ProbePoints : WorldSampleAt(point)
    \/ \E ray \in RayChoices, maxSteps \in MaxStepsChoices : RaymarchRay(ray, maxSteps)

InitWorld ==
    /\ world \in { NewWorld(entities) : entities \in WorldChoices }
    /\ worldCall = NoWorldCall
    /\ frameBuffer = NewFrameBuffer(1, 1) /\ fbCall = NoCall
    /\ adaptive = AdaptiveAtStart /\ aqCall = NoAdjust
    /\ glyphs = <<>> /\ glyphCache = NewGlyphCache /\ gcLog = <<>> /\ dbQueries = <<>>
    /\ tileFrame = 0 /\ tilePhase = "idle" /\ workerInbox = NoWorkerQueues
    /\ workerOutbox = NoWorkerQueues /\ tileListeners = NoWorkerQueues
    /\ tilePending = {} /\ tileWritten = {} /\ tileSeen = <<>>
    /\ scene = MakeScene(FALSE, FALSE, FALSE) /\ loopOptions = DefaultOptions
    /\ temporal = NewTemporalCache(1, 1) /\ smallBuffer = None
    /\ baseIntensities = <<>> /\ frameCount = 0 /\ frameLog = NoFrameLog
    /\ layout = None
    /\ tcCall = None
    /\ gcWarm = None
    /\ workerPool = None
    /\ dbCalls = None
    /\ lightCall = NoLightCall
    /\ inputState = NewInputState
    /\ keysHeld = {}
    /\ pointerLockElement = "none"

\* A World over any of the entity lists: updateEntities, sample at any probe
\* point and raymarch along any of the rays, in any order.
SpecWorld == InitWorld /\ [][NextWorld]_vars

NextQueryBest == \E params \in StyleQueries : GlyphDBQueryBest(params)

InitQueryBest ==
    /\ glyphs \in { LoadGlyphDB(rs) : rs \in StyleRowSeqs }
    /\ dbCalls = NoDbCalls
    /\ glyphCache = NewGlyphCache /\ gcLog = <<>> /\ dbQueries = <<>>
    /\ frameBuffer = NewFrameBuffer(1, 1) /\ fbCall = NoCall
    /\ adaptive = AdaptiveAtStart /\ aqCall = NoAdjust
    /\ tileFrame = 0 /\ tilePhase = "idle" /\ workerInbox = NoWorkerQueues
    /\ workerOutbox = NoWorkerQueues /\ tileListeners = NoWorkerQueues
    /\ tilePending = {} /\ tileWritten = {} /\ tileSeen = <<>>
    /\ scene = MakeScene(FALSE, FALSE, FALSE) /\ loopOptions = DefaultOptions
    /\ temporal = NewTemporalCache(1, 1) /\ smallBuffer = None
    /\ baseIntensities = <<>> /\ frameCount = 0 /\ frameLog = NoFrameLog
    /\ layout = None
    /\ tcCall = None
    /\ gcWarm = None
    /\ workerPool = None
    /\ world = None
    /\ worldCall = None
    /\ lightCall = NoLightCall
    /\ inputState = NewInputState
    /\ keysHeld = {}
    /\ pointerLockElement = "none"

\* A GlyphDB loaded from any of the row sequences, queried directly with the
\* two styles in any order.
SpecQueryBest == InitQueryBest /\ [][NextQueryBest]_vars

NextUpscale ==
    \/ \E ft \in FrameTimes : AdaptiveAdjust(ft)
    \/ AdaptiveUpscale

InitUpscale ==
    /\ frameBuffer \in { NewFrameBuffer(w, h) : w \in 1 .. MaxUpscaleW, h \in 1 .. MaxUpscaleH }
    /\ adaptive = AdaptiveAtStart
    /\ aqCall = NoAdjust
    /\ smallBuffer = None
    /\ fbCall = NoCall
    /\ glyphs = <<>> /\ glyphCache = NewGlyphCache /\ gcLog = <<>> /\ dbQueries = <<>>
    /\ tileFrame = 0 /\ tilePhase = "idle" /\ workerInbox = NoWorkerQueues
    /\ workerOutbox = NoWorkerQueues /\ tileListeners = NoWorkerQueues
    /\ tilePending = {} /\ tileWritten = {} /\ tileSeen = <<>>
    /\ scene = MakeScene(FALSE, FALSE, FALSE) /\ loopOptions = DefaultOptions
    /\ temporal = NewTemporalCache(1, 1)
    /\ baseIntensities = <<>> /\ frameCount = 0 /\ frameLog = NoFrameLog
    /\ layout = None
    /\ tcCall = None
    /\ gcWarm = None
    /\ workerPool = None
    /\ world = None
    /\ worldCall = None
    /\ dbCalls = None
    /\ lightCall = NoLightCall
    /\ inputState = NewInputState
    /\ keysHeld = {}
    /\ pointerLockElement = "none"

\* The loop with adaptive quality on every output size: frames upscaled from
\* the small buffer, and adjust calls after slow and fast frames.
SpecUpscale == InitUpscale /\ [][NextUpscale]_vars

NextLighting ==
    \/ \E time \in FlickerTimes : LightFlicker(time)
    \/ \E hitPos \in HitPoints, normal \in HitNormals, material \in HitMaterials :
           LightingCompute(hitPos, normal, material)

InitLighting ==
    /\ scene \in LightingScenes
    /\ lightCall = StartLightLog(scene)
    /\ baseIntensities = <<>> /\ frameCount = 0
    /\ frameBuffer = NewFrameBuffer(1, 1) /\ fbCall = NoCall
    /\ adaptive = AdaptiveAtStart /\ aqCall = NoAdjust
    /\ glyphs = <<>> /\ glyphCache = NewGlyphCache /\ gcLog = <<>> /\ dbQueries = <<>>
    /\ tileFrame = 0 /\ tilePhase = "idle" /\ workerInbox = NoWorkerQueues
    /\ workerOutbox = NoWorkerQueues /\ tileListeners = NoWorkerQueues
    /\ tilePending = {} /\ tileWritten = {} /\ tileSeen = <<>>
    /\ loopOptions = DefaultOptions
    /\ temporal = NewTemporalCache(1, 1) /\ smallBuffer = None
    /\ frameLog = NoFrameLog
    /\ layout = None
    /\ tcCall = None
    /\ gcWarm = None
    /\ workerPool = None
    /\ world = None
    /\ worldCall = None
    /\ dbCalls = None
    /\ inputState = NewInputState
    /\ keysHeld = {}
    /\ pointerLockElement = "none"

\* A scene of up to two lights: updateLightFlicker at any time and
\* computeLighting at any hit point, in any order.
SpecLighting == InitLighting /\ [][NextLighting]_vars

NextGrid ==
    \/ \E entities \in GridEntityLists : GridUpdateEntities(entities)
    \/ \E point \in GridProbes : GridGetCandidates(point)

InitGrid ==
    /\ world \in { NewWorld(entities) : entities \in GridEntityLists }
    /\ worldCall = [op |-> "none", stale |-> FALSE, point |-> <<0, 0, 0>>, result |-> <<>>]
    /\ frameBuffer = NewFrameBuffer(1, 1) /\ fbCall = NoCall
    /\ adaptive = AdaptiveAtStart /\ aqCall = NoAdjust
    /\ glyphs = <<>> /\ glyphCache = NewGlyphCache /\ gcLog = <<>> /\ dbQueries = <<>>
    /\ tileFrame = 0 /\ tilePhase = "idle" /\ workerInbox = NoWorkerQueues
    /\ workerOutbox = NoWorkerQueues /\ tileListeners = NoWorkerQueues
    /\ tilePending = {} /\ tileWritten = {} /\ tileSeen = <<>>
    /\ scene = MakeScene(FALSE, FALSE, FALSE) /\ loopOptions = DefaultOptions
    /\ temporal = NewTemporalCache(1, 1) /\ smallBuffer = None
    /\ baseIntensities = <<>> /\ frameCount = 0 /\ frameLog = NoFrameLog
    /\ layout = None
    /\ tcCall = None
    /\ gcWarm = None
    /\ workerPool = None
    /\ dbCalls = None
    /\ lightCall = NoLightCall
    /\ inputState = NewInputState
    /\ keysHeld = {}
    /\ pointerLockElement = "none"

\* A SpatialGrid over any list of entities: updateEntities with any other
\* list and getCandidates at any probe point, in any order.
SpecGrid == InitGrid /\ [][NextGrid]_vars

NextScene == \E dt \in {0, 1}, point \in ScenePoints : SceneTick(dt, point)

InitScene ==
    /\ world \in { NewWorld(entities) : entities \in SceneEntityLists }
    /\ worldCall = NoWorldCall
    /\ frameCount = 0
    /\ frameBuffer = NewFrameBuffer(1, 1) /\ fbCall = NoCall
    /\ adaptive = AdaptiveAtStart /\ aqCall = NoAdjust
    /\ glyphs = <<>> /\ glyphCache = NewGlyphCache /\ gcLog = <<>> /\ dbQueries = <<>>
    /\ tileFrame = 0 /\ tilePhase = "idle" /\ workerInbox = NoWorkerQueues
    /\ workerOutbox = NoWorkerQueues /\ tileListeners = NoWorkerQueues
    /\ tilePending = {} /\ tileWritten = {} /\ tileSeen = <<>>
    /\ scene = MakeScene(FALSE, FALSE, FALSE) /\ loopOptions = DefaultOptions
    /\ temporal = NewTemporalCache(1, 1) /\ smallBuffer = None
    /\ baseIntensities = <<>> /\ frameLog = NoFrameLog
    /\ layout = None
    /\ tcCall = None
    /\ gcWarm = None
    /\ workerPool = None
    /\ dbCalls = None
    /\ lightCall = NoLightCall
    /\ inputState = NewInputState
    /\ keysHeld = {}
    /\ pointerLockElement = "none"

\* A RenderLoop over a World of one or two entities: ticks with any dt, each
\* sampling the world at a point.
SpecScene == InitScene /\ [][NextScene]_vars

NextInput ==
    \/ \E code \in KeyCodes : KeyDown(code)
    \/ \E code \in KeyCodes : KeyUp(code)
    \/ \E granted \in BOOLEAN : MouseClick(granted)

InitInput ==
    /\ inputState = NewInputState
    /\ keysHeld = {}
    /\ pointerLockElement = "none"
    /\ lightCall = NoLightCall
    /\ world = NewWorld(<<>>)
    /\ worldCall = NoWorldCall
    /\ frameCount = 0
    /\ frameBuffer = NewFrameBuffer(1, 1) /\ fbCall = NoCall
    /\ adaptive = AdaptiveAtStart /\ aqCall = NoAdjust
    /\ glyphs = <<>> /\ glyphCache = NewGlyphCache /\ gcLog = <<>> /\ dbQueries = <<>>
    /\ tileFrame = 0 /\ tilePhase = "idle" /\ workerInbox = NoWorkerQueues
    /\ workerOutbox = NoWorkerQueues /\ tileListeners = NoWorkerQueues
    /\ tilePending = {} /\ tileWritten = {} /\ tileSeen = <<>>
    /\ scene = MakeScene(FALSE, FALSE, FALSE) /\ loopOptions = DefaultOptions
    /\ temporal = NewTemporalCache(1, 1) /\ smallBuffer = None
    /\ baseIntensities = <<>> /\ frameLog = NoFrameLog
    /\ layout = None
    /\ tcCall = None
    /\ gcWarm = None
    /\ workerPool = None
    /\ dbCalls = None

\* A KeyboardListener and a MouseListener on a new InputState: any sequence
\* of keydown, keyup and click events with at most MaxKeysHeld keys held.
SpecInput == InitInput /\ [][NextInput]_vars

(***************************************************************************)
(* Claims                                                                  *)
(***************************************************************************)

\* C1: FrameBuffer.set marks cell (x,y) dirty if and only if one of the cell's
\* five stored values changes; a set that leaves all five stored values as they
\* were leaves the dirty flag of that cell, and of every other cell, unchanged.
C1_DirtyIffValueChanged ==
    fbCall.op = "set" =>
        LET idx == fbCall.idx
            before == fbCall.before
            differs == FBStored(frameBuffer) # FBStored(before)
        IN  /\ differs => frameBuffer.dirty[idx] = 1
            /\ ~differs => frameBuffer.dirty[idx] = before.dirty[idx]
            /\ \A i \in DOMAIN frameBuffer.dirty :
                   i # idx => frameBuffer.dirty[i] = before.dirty[i]

\* The steps after which a run of slow (fast) frames has reached the floor
\* (ceiling) from any scale in [0.5, 1.0].
StepsToFloor == (MaxScale - MinScale + ScaleDownStep - 1) \div ScaleDownStep
StepsToCeiling == (MaxScale - MinScale + ScaleUpStep - 1) \div ScaleUpStep

\* C7: while every frame time passed to adjust exceeds 120% of the target, the
\* scale strictly decreases at each adjust until it equals 0.5 and then stays
\* 0.5 (it is 0.5 after at most ten such adjusts); while every frame time is
\* under 80% of the target, it strictly increases at each adjust until it
\* equals 1.0 and then stays 1.0 (it is 1.0 after at most 25 such adjusts).
C7_ScaleConvergesToFloorAndCeiling ==
    /\ (aqCall.op = "adjust" /\ Over120Percent(aqCall.targetFPS, aqCall.frameTime)) =>
          IF aqCall.scaleBefore = MinScale
          THEN adaptive.currentScale = MinScale
          ELSE MinScale <= adaptive.currentScale
               /\ adaptive.currentScale < aqCall.scaleBefore
    /\ (aqCall.op = "adjust" /\ Under80Percent(aqCall.targetFPS, aqCall.frameTime)) =>
          IF aqCall.scaleBefore = MaxScale
          THEN adaptive.currentScale = MaxScale
          ELSE adaptive.currentScale <= MaxScale
               /\ adaptive.currentScale > aqCall.scaleBefore
    /\ aqCall.slowRun >= StepsToFloor => adaptive.currentScale = MinScale
    /\ aqCall.fastRun >= StepsToCeiling => adaptive.currentScale = MaxScale

\* C7 witness: a run of slow frames has brought the scale from above the floor
\* down to the floor, and the latest slow adjust kept it there.
C7_Witness ==
    /\ aqCall.op = "adjust"
    /\ Over120Percent(aqCall.targetFPS, aqCall.frameTime)
    /\ aqCall.slowRun > StepsToFloor
    /\ aqCall.scaleBefore = MinScale
    /\ adaptive.currentScale = MinScale

\* C8: after any sequence of adjust calls the scale is within [0.5, 1.0]; one
\* adjust lowers it by at most 0.05, raises it by at most 0.02, and leaves it
\* unchanged when the frame time is between 80% and 120% of the target inclusive.
C8_ScaleBoundedAndStepLimited ==
    /\ MinScale <= adaptive.currentScale /\ adaptive.currentScale <= MaxScale
    /\ aqCall.op = "adjust" =>
          /\ aqCall.scaleBefore - adaptive.currentScale <= ScaleDownStep
          /\ adaptive.currentScale - aqCall.scaleBefore <= ScaleUpStep
          /\ (~Over120Percent(aqCall.targetFPS, aqCall.frameTime)
              /\ ~Under80Percent(aqCall.targetFPS, aqCall.frameTime))
                => adaptive.currentScale = aqCall.scaleBefore

\* C8 witness: an adjust with a frame time of exactly 120% of the target (40 ms
\* at 30 FPS) left a reduced scale as it was.
C8_Witness ==
    /\ aqCall.op = "adjust"
    /\ aqCall.frameTime * aqCall.targetFPS = 1200
    /\ aqCall.scaleBefore < MaxScale
    /\ adaptive.currentScale = aqCall.scaleBefore

\* C6: two select() calls whose parameters quantize to the same key return the
\* same record; if the first of two successive such calls was a miss, the
\* second raises the hit count by exactly one and leaves the miss count as it
\* was; the database is queried at most once for a key.
C6_SameKeySameRecord ==
    /\ \A i, j \in 1 .. Len(gcLog) :
          gcLog[i].key = gcLog[j].key => gcLog[i].result = gcLog[j].result
    /\ \A i \in 1 .. (Len(gcLog) - 1) :
          (gcLog[i].key = gcLog[i + 1].key /\ gcLog[i].miss) =>
              /\ ~gcLog[i + 1].miss
              /\ gcLog[i + 1].hits = gcLog[i].hits + 1
              /\ gcLog[i + 1].misses = gcLog[i].misses
    /\ \A k \in DOMAIN dbQueries : dbQueries[k] = 1

\* C6 witness: two successive selects with different parameters (coverage 0.5
\* and 0.51) and one key, the first a miss, at a key where the database would
\* answer the second query with another record.
C6_Witness ==
    /\ Len(gcLog) >= 2
    /\ gcLog[1].key = gcLog[2].key
    /\ gcLog[1].miss
    /\ gcLog[2].result = gcLog[1].result
    /\ \E p \in GCParams :
          BuildKey(p) = gcLog[1].key /\ QueryBest(glyphs, p) # gcLog[1].result

\* C4: renderFrame resolves, and the frame is presented, only after every tile
\* generated for that frame has had its own result, computed for that frame,
\* received and written into the output buffer.
C4_AllTilesWrittenAtPresentation ==
    tilePhase = "presented" =>
        \A i \in 1 .. Len(GenerateTiles(frameBuffer.width, frameBuffer.height)) :
            [ tile |-> GenerateTiles(frameBuffer.width, frameBuffer.height)[i],
              time |-> tileFrame ] \in tileWritten

\* C5: the content of the output buffer when a frame is presented is the same
\* for every order and timing of the workers' results: a run presents, for a
\* frame, the buffer that any earlier run on the same scene presented for it.
C5_PresentedBufferIndependentOfTiming ==
    (tilePhase = "presented" /\ tileFrame \in DOMAIN tileSeen) =>
        FBStored(frameBuffer) = tileSeen[tileFrame]

\* The pixels of the buffer the last frame was rendered into, and what the
\* claims say of two consecutive frames.
FramePixels == { <<x, y>> : x \in 0 .. (frameLog.width - 1), y \in 0 .. (frameLog.height - 1) }
Untouched == FramePixels \ (frameLog.traced \cup frameLog.reshaded)
SecondFrame == frameLog.frame >= 2
SameCameraPose == frameLog.camera = frameLog.prev.camera
StaticScene == ~HasAnyMoving(scene) /\ ~HasAnyFlicker(scene)
SameResolution ==
    frameLog.width = frameLog.prev.width /\ frameLog.height = frameLog.prev.height
HasPulsingMaterial ==
    \E i \in DOMAIN scene.entities :
        /\ scene.entities[i].material.motionBehavior # None
        /\ scene.entities[i].material.motionBehavior[1].type = "pulse"

\* C2 as stated: with temporal reuse, the same camera pose in two consecutive
\* frames, no moving entity, no flickering light and a first frame that
\* processed every pixel, the second frame raymarches no pixel.
C2_NoTraceInSecondFrame ==
    ( /\ SecondFrame /\ loopOptions.useTemporalReuse /\ SameCameraPose /\ StaticScene
      /\ frameLog.prev.dropped = {} )
    => frameLog.traced = {}

\* C2 amended: the same, provided both frames are rendered at the same
\* resolution.
C2_NoTraceInSecondFrameSameResolution ==
    ( /\ SecondFrame /\ loopOptions.useTemporalReuse /\ SameCameraPose /\ StaticScene
      /\ frameLog.prev.dropped = {} /\ SameResolution )
    => frameLog.traced = {}

C2_Witness ==
    /\ SecondFrame /\ loopOptions.useTemporalReuse /\ SameCameraPose /\ StaticScene
    /\ frameLog.prev.dropped = {} /\ SameResolution
    /\ frameLog.prev.traced = { <<x, y>> : x \in 0 .. (RenderWidth - 1),
                                           y \in 0 .. (RenderHeight - 1) }
    /\ frameLog.traced = {}

\* C3 as stated: a static scene rendered twice in succession with the same
\* camera pose gives the same stored buffer values after the second frame as
\* after the first.
C3_SecondFrameLeavesBufferIdentical ==
    (SecondFrame /\ SameCameraPose /\ StaticScene)
    => FBStored(frameBuffer) = frameLog.storedBefore

\* C3 amended: the same, provided adaptive quality is disabled and either
\* temporal reuse is enabled or no material has a pulse motion behaviour.
C3_SecondFrameIdenticalWithoutAdaptive ==
    ( /\ SecondFrame /\ SameCameraPose /\ StaticScene
      /\ ~loopOptions.useAdaptiveQuality
      /\ (loopOptions.useTemporalReuse \/ ~HasPulsingMaterial) )
    => FBStored(frameBuffer) = frameLog.storedBefore

C3_Witness ==
    /\ SecondFrame /\ SameCameraPose /\ StaticScene
    /\ ~loopOptions.useAdaptiveQuality /\ loopOptions.useTemporalReuse
    /\ HasPulsingMaterial
    /\ frameLog.prev.traced # {}
    /\ \E i \in DOMAIN frameBuffer.chars : frameBuffer.chars[i] # SPACE
    /\ FBStored(frameBuffer) = frameLog.storedBefore

\* C9: the temporal cache a frame consults has the width and height of the
\* buffer the frame is rendered into, and every valid record it reads was
\* stored for that pixel at that resolution.
C9_CacheMatchesRenderResolution ==
    frameLog.frame >= 1 =>
        /\ frameLog.temporalBefore.width = frameLog.width
        /\ frameLog.temporalBefore.height = frameLog.height
        /\ \A p \in FramePixels \ frameLog.dropped :
              ( /\ loopOptions.useTemporalReuse
                /\ ~TCCameraChanged(frameLog.temporalBefore, frameLog.camera.position,
                                    frameLog.camera.rotation)
                /\ TCIsValid(frameLog.temporalBefore, p[1], p[2]) )
              => frameLog.temporalBefore.storedAt[p[2] * frameLog.temporalBefore.width + p[1]]
                    = Some(<<frameLog.width, frameLog.height, p[1], p[2]>>)

\* The condition under which the claim C10 lets a pixel be skipped, taken from
\* the state before the frame.
MaySkip(p) ==
    LET tc == frameLog.temporalBefore
        eIdx == TCGetEntityIndex(tc, p[1], p[2])
    IN  /\ loopOptions.useTemporalReuse
        /\ Abs(frameLog.camera.position - tc.prevCameraPos) <= CAMERA_THRESHOLD
        /\ Abs(frameLog.camera.rotation - tc.prevCameraRot) <= CAMERA_THRESHOLD
        /\ TCIsValid(tc, p[1], p[2])
        /\ \/ eIdx = -1 /\ ~HasAnyMoving(scene)
           \/ /\ eIdx # -1
              /\ scene.entities[eIdx + 1].velocity = None
              /\ scene.entities[eIdx + 1].angularVelocity = None
              /\ ~HasAnyFlicker(scene)

\* C10 as stated: a pixel is neither traced nor re-shaded only if temporal
\* reuse is enabled, the camera is unchanged, its record is valid and the
\* record is a miss with no entity moving or a hit on a stationary entity with
\* no light flickering; every other pixel is recomputed.
C10_SkippedOnlyWhenReusable ==
    frameLog.frame >= 1 => \A p \in Untouched : MaySkip(p)

\* C10 amended: the same for every pixel that the frame-deadline check of
\* adaptive quality did not drop.
C10_SkippedOnlyWhenReusableOrDropped ==
    frameLog.frame >= 1 => \A p \in Untouched \ frameLog.dropped : MaySkip(p)

C10_Witness ==
    /\ frameLog.frame >= 2
    /\ frameLog.prev.traced # {}
    /\ frameLog.dropped # {}
    /\ \E p \in Untouched \ frameLog.dropped : MaySkip(p)

\* The buffer the last frame was rendered into, and the record of a pixel.
RenderedBuffer == IF frameLog.small THEN smallBuffer[1] ELSE frameBuffer
RecordOf(tc, p) ==
    LET idx == p[2] * tc.width + p[1]
    IN  << tc.valid[idx], tc.depth[idx], tc.entityIndex[idx], tc.hitPos[idx], tc.normalZ[idx] >>

\* The case of C11 for pixel p: camera unchanged, record valid, hit entity
\* stationary, some light flickering.
GeometryReuseCase(p) ==
    LET tc == frameLog.temporalBefore
        eIdx == TCGetEntityIndex(tc, p[1], p[2])
    IN  /\ ~TCCameraChanged(tc, frameLog.camera.position, frameLog.camera.rotation)
        /\ TCIsValid(tc, p[1], p[2])
        /\ eIdx # -1
        /\ scene.entities[eIdx + 1].velocity = None
        /\ scene.entities[eIdx + 1].angularVelocity = None
        /\ HasAnyFlicker(scene)

\* What C11 promises for pixel p: no trace, a cell recomputed from the stored
\* hit normal and the hit entity's material under the current lights, with the
\* glyph the cache holds for those parameters, and an unchanged record.
ReshadedAsClaimed(p) ==
    LET tc == frameLog.temporalBefore
        material == scene.entities[TCGetEntityIndex(tc, p[1], p[2]) + 1].material
        lit == ComputeLighting(TCGetNormal(tc, p[1], p[2]), material, scene)
        key == BuildKey(GlyphParams(lit, TCGetNormal(tc, p[1], p[2]), material))
    IN  /\ p \notin frameLog.traced
        /\ key \in DOMAIN glyphCache.cache
        /\ FBGet(RenderedBuffer, p[1], p[2])
             = [ char |-> glyphs[glyphCache.cache[key]].codePoint,
                 r |-> lit.r, g |-> lit.g, b |-> lit.b,
                 brightness |-> ToFloat32(BrightnessArg(lit.brightness)) ]
        /\ RecordOf(temporal, p) = RecordOf(tc, p)

\* C11 as stated: in the geometry-reuse case the pixel is not traced, its cell
\* is re-shaded from the stored hit and its record is left unchanged.
C11_GeometryReuseReshades ==
    frameLog.frame >= 1 =>
        \A p \in FramePixels : GeometryReuseCase(p) => ReshadedAsClaimed(p)

\* C11 amended: the same with temporal reuse enabled, for every pixel that the
\* frame-deadline check did not drop.
C11_GeometryReuseReshadesWhenEnabled ==
    (frameLog.frame >= 1 /\ loopOptions.useTemporalReuse) =>
        \A p \in FramePixels \ frameLog.dropped :
            GeometryReuseCase(p) => ReshadedAsClaimed(p)

C11_Witness ==
    /\ frameLog.frame >= 2 /\ loopOptions.useTemporalReuse
    /\ \E p \in FramePixels \ frameLog.dropped :
          /\ GeometryReuseCase(p)
          /\ p \in frameLog.reshaded
          /\ ReshadedAsClaimed(p)
          /\ FBStored(frameBuffer) # frameLog.storedBefore

\* The position of a pixel in the scan order of the last frame (row by row).
ScanIndex(p) == p[2] * frameLog.width + p[1]

\* C12: once a frame-deadline check of a frame has found the deadline
\* exceeded (some pixel was dropped there), no pixel later in scan order,
\* in the rest of that row or in any later row, is traced or re-shaded.
C12_NothingRenderedAfterDeadline ==
    \A d \in frameLog.dropped : \A p \in FramePixels :
        ScanIndex(p) > ScanIndex(d) =>
            p \notin (frameLog.traced \cup frameLog.reshaded)

\* The pixels inside a tile's bounds, and the pixels of the layout's output.
TilePixels(tile) ==
    { <<px, py>> : px \in tile.x .. (tile.x + tile.width - 1),
                   py \in tile.y .. (tile.y + tile.height - 1) }
LayoutPixels ==
    { <<px, py>> : px \in 0 .. (layout[1].buffer.width - 1),
                   py \in 0 .. (layout[1].buffer.height - 1) }

\* What the claim C13 says the buffer holds at pixel p: the cell of the one
\* written tile whose bounds contain p, and a blank cell where no written tile
\* contains p.
LayoutExpected(p) ==
    LET tiles == layout[1].tiles
        at == { n \in layout[1].written : p \in TilePixels(tiles[n]) }
    IN  IF at = {} THEN FBGet(NewFrameBuffer(1, 1), 0, 0)
        ELSE LET n == CHOOSE m \in at : TRUE
                 i == (p[2] - tiles[n].y) * tiles[n].width + (p[1] - tiles[n].x) + 1
             IN  LayoutCells(n, tiles[n])[i]

\* C13: for every output size the tiles have width and height in 1..16, lie
\* inside the output, are pairwise disjoint and cover every pixel exactly once;
\* the tile results written so far have changed only pixels inside their own
\* tiles' bounds (every other pixel is still blank).
C13_TilesPartitionOutput ==
    layout # None =>
        LET tiles == layout[1].tiles
        IN  /\ \A n \in DOMAIN tiles :
                /\ tiles[n].width \in 1 .. TILE_SIZE
                /\ tiles[n].height \in 1 .. TILE_SIZE
                /\ TilePixels(tiles[n]) \subseteq LayoutPixels
            /\ \A n, m \in DOMAIN tiles :
                n # m => TilePixels(tiles[n]) \cap TilePixels(tiles[m]) = {}
            /\ \A p \in LayoutPixels :
                Cardinality({ n \in DOMAIN tiles : p \in TilePixels(tiles[n]) }) = 1
            /\ \A p \in LayoutPixels :
                FBGet(layout[1].buffer, p[1], p[2]) = LayoutExpected(p)

\* An output with a clipped second column and a clipped second row of tiles,
\* where the result of the last tile alone has been written.
C13_Witness ==
    /\ layout # None
    /\ layout[1].buffer.width = TILE_SIZE + 1
    /\ layout[1].buffer.height = TILE_SIZE + 1
    /\ Len(layout[1].tiles) = 4
    /\ layout[1].written = {4}
    /\ FBGet(layout[1].buffer, TILE_SIZE, TILE_SIZE).char = 64 + 4
    /\ FBGet(layout[1].buffer, TILE_SIZE - 1, TILE_SIZE).char = SPACE

\* The pixels of the temporal cache.
CachePixels ==
    { <<x, y>> : x \in 0 .. (temporal.width - 1), y \in 0 .. (temporal.height - 1) }

\* Everything the cache holds for pixel p.
CacheRecord(tc, p) ==
    LET idx == p[2] * tc.width + p[1]
    IN  << tc.valid[idx], tc.depth[idx], tc.entityIndex[idx], tc.hitPos[idx],
           tc.normalZ[idx] >>

\* C14: right after resize or invalidateAll no pixel is valid; a pixel is valid
\* exactly when store or storeMiss was called on that pixel since the last
\* resize or invalidateAll (or construction); and a store or storeMiss call
\* leaves the record of every other pixel as it was.
C14_ValidOnlyThroughOwnStore ==
    tcCall # None =>
        /\ tcCall[1].op \in {"resize", "invalidateAll"} =>
                \A p \in CachePixels : ~TCIsValid(temporal, p[1], p[2])
        /\ \A p \in CachePixels :
                TCIsValid(temporal, p[1], p[2]) <=> p \in tcCall[1].since
        /\ tcCall[1].op \in {"store", "storeMiss"} =>
                \A p \in CachePixels \ {<<tcCall[1].x, tcCall[1].y>>} :
                    CacheRecord(temporal, p) = CacheRecord(tcCall[1].before, p)

\* A hit was stored at pixel (0,0), the cache was invalidated, and a store at
\* pixel (1,0) has made that pixel valid again beside the invalid pixel (0,0),
\* which still holds its old hit.
C14_Witness ==
    /\ tcCall # None
    /\ tcCall[1].op = "store"
    /\ temporal.width = 2
    /\ <<tcCall[1].x, tcCall[1].y>> = <<1, 0>>
    /\ TCIsValid(temporal, 1, 0)
    /\ ~TCIsValid(temporal, 0, 0)
    /\ temporal.entityIndex[0] = 1
    /\ tcCall[1].since = {<<1, 0>>}

\* C15: after warmup every one of the CACHE_SIZE (18,432) slots holds a record
\* of the glyph set; right after warmup the hit and miss counts are both zero;
\* and every select after the warmup whose key lies inside the table is a hit:
\* it queries the database not at all, leaves the miss count at zero, and
\* raises the hit count by one.
C15_WarmCacheAlwaysHits ==
    gcWarm # None =>
        /\ \A key \in 0 .. (CACHE_SIZE - 1) :
              /\ key \in DOMAIN glyphCache.cache
              /\ glyphCache.cache[key] \in 1 .. Len(glyphs)
        /\ Len(gcLog) = gcWarm[1] => glyphCache.hits = 0 /\ glyphCache.misses = 0
        /\ \A i \in (gcWarm[1] + 1) .. Len(gcLog) :
              gcLog[i].key \in 0 .. (CACHE_SIZE - 1) =>
                  /\ ~gcLog[i].miss
                  /\ gcLog[i].misses = 0
                  /\ gcLog[i].hits = i - gcWarm[1]
        /\ \A key \in DOMAIN dbQueries : dbQueries[key] = 1

\* A cache on which a select missed before the warmup (so the counts were not
\* zero when warmup ran) and a select after the warmup hit a slot that only
\* the warmup had filled.
C15_Witness ==
    /\ gcWarm = Some(1)
    /\ Len(gcLog) = 2
    /\ gcLog[1].miss
    /\ gcLog[2].key # gcLog[1].key
    /\ ~gcLog[2].miss
    /\ glyphCache.hits = 1
    /\ glyphCache.misses = 0

\* The code points of the eleven characters of RAMP.
RampChars == { RAMP[i] : i \in 1 .. Len(RAMP) }

\* The hit pixels the loop's last frame traced or re-shaded, and the character
\* the fixed ramp gives for the lighting of pixel p's hit under the scene's
\* current lights.
ShadedHitPixels ==
    { p \in frameLog.traced \cup frameLog.reshaded :
        TCGetEntityIndex(temporal, p[1], p[2]) # -1 }
RampCharFor(p) ==
    LET lit == ComputeLighting(TCGetNormal(temporal, p[1], p[2]),
                   scene.entities[TCGetEntityIndex(temporal, p[1], p[2]) + 1].material,
                   scene)
    IN  RampChar(RampIndex(lit.brightness))

\* The cells of hit pixels in the last tile result a worker posted.
LastHitCells ==
    LET r == workerPool[1].last[1]
    IN  { r.cells[i] : i \in { j \in DOMAIN r.cells :
            << r.tile.x + ((j - 1) % r.tile.width),
               r.tile.y + ((j - 1) \div r.tile.width) >>
                \notin { r.missCells[m] : m \in DOMAIN r.missCells } } }

\* C16: a consumer whose glyph database could not be opened renders every hit
\* pixel with the character of the eleven-character ramp at the index
\* floor(brightness * 10), which lies in 0..10: the single-threaded loop on both
\* its paths, and a worker in its tile results.  No character written is
\* undefined (nothing throws, so the loop goes on), and a worker that did open
\* its database goes on selecting its characters from the glyph set.
C16_RampFallback ==
    /\ (workerPool = None /\ glyphs = <<>> /\ frameLog.frame >= 1) =>
          \A p \in ShadedHitPixels :
              /\ FBGet(RenderedBuffer, p[1], p[2]).char = RampCharFor(p)
              /\ FBGet(RenderedBuffer, p[1], p[2]).char \in RampChars
    /\ (workerPool # None /\ workerPool[1].last # None) =>
          \A cell \in LastHitCells :
              IF workerPool[1].caches[workerPool[1].last[1].worker] = None
              THEN /\ RampIndex(cell.brightness) \in 0 .. 10
                   /\ cell.char = RAMP[RampIndex(cell.brightness) + 1]
              ELSE cell.char \in { WorkerGlyphs[i].codePoint : i \in DOMAIN WorkerGlyphs }

\* The loop without a glyph database in its second frame or later, re-shading a
\* cached hit under a flickering light with a visible ramp character.
C16_Witness ==
    /\ workerPool = None /\ glyphs = <<>>
    /\ frameLog.frame >= 2
    /\ \E p \in ShadedHitPixels \cap frameLog.reshaded :
          /\ FBGet(RenderedBuffer, p[1], p[2]).char \in RampChars \ {SPACE}
          /\ FBGet(RenderedBuffer, p[1], p[2]).char = RampCharFor(p)

\* A pool in which one worker opened its database and queried it, and the other
\* did not and has posted a tile with a hit cell drawn from the ramp.
C16_WorkerCase ==
    /\ workerPool # None /\ workerPool[1].last # None
    /\ workerPool[1].caches[workerPool[1].last[1].worker] = None
    /\ \E w \in Workers : workerPool[1].caches[w] # None /\ workerPool[1].caches[w][1].misses > 0
    /\ \E cell \in LastHitCells : cell.char \in RampChars \ {SPACE}

\* C17 helpers: the entities of the world whose geometry has no distance
\* function, and the last call's result.
FieldIndices == { i - 1 : i \in { j \in DOMAIN world.entities : world.entities[j].geometry.type = "sdf" } }
OnlyFields == world.entities # <<>> /\ \A j \in DOMAIN world.entities : world.entities[j].geometry.type = "sdf"

C17_SphereBesideField ==
    /\ FieldIndices # {}
    /\ worldCall.op = "sample"
    /\ worldCall.result.entityId = "sphere_1"

\* C18 helpers: the world holds one sphere; the sampled point lies in a grid
\* cell (of side 2) that the sphere's bounding box, centre +- radius, overlaps;
\* d is |p - c| - r rounded down to a hundredth.
SingleSphere ==
    /\ Len(world.entities) = 1
    /\ world.entities[1].geometry.type = "sphere"
    /\ world.entities[1].transform.scale = <<1, 1, 1>>
CellOverlapsSphere(p) ==
    LET c == world.entities[1].transform.position
        r == world.entities[1].geometry.radius
    IN  \A k \in 1 .. 3 :
            (p[k] \div (2 * WorldUnit)) \in ((c[k] - r) \div (2 * WorldUnit)) .. ((c[k] + r) \div (2 * WorldUnit))
IsSphereDistance(p, d) ==
    LET c == world.entities[1].transform.position
        r == world.entities[1].geometry.radius
        squared == (p[1] - c[1]) * (p[1] - c[1]) + (p[2] - c[2]) * (p[2] - c[2])
                   + (p[3] - c[3]) * (p[3] - c[3])
    IN  d + r >= 0 /\ (d + r) * (d + r) <= squared /\ squared < (d + r + 1) * (d + r + 1)

\* C18: in a world of a single unrotated unit-scale sphere of radius r at c,
\* World.sample(p).distance is |p - c| - r for every p whose grid cell the
\* sphere's bounding box overlaps; for radius 1 at (0,1,0) the points (0,1,0),
\* (0,2,0) and (0,3,0) give -1, 0 and 1.
C18_SingleSphereDistance ==
    (SingleSphere /\ worldCall.op = "sample") =>
        /\ CellOverlapsSphere(worldCall.point) =>
               /\ worldCall.result.distance.kind = "num"
               /\ IsSphereDistance(worldCall.point, worldCall.result.distance.v)
               /\ worldCall.result.entityIndex = 0
        /\ world.entities[1] = TestSphere =>
               /\ worldCall.point = <<0, 1 * WorldUnit, 0>> =>
                      worldCall.result.distance = Num(-1 * WorldUnit)
               /\ worldCall.point = <<0, 2 * WorldUnit, 0>> =>
                      worldCall.result.distance = Num(0)
               /\ worldCall.point = <<0, 3 * WorldUnit, 0>> =>
                      worldCall.result.distance = Num(1 * WorldUnit)

\* C18 witness: the sphere of test-world.ts sampled at (0, 3, 0).
C18_Witness ==
    /\ SingleSphere
    /\ world.entities[1] = TestSphere
    /\ worldCall.op = "sample"
    /\ worldCall.point = <<0, 3 * WorldUnit, 0>>
    /\ worldCall.result.distance = Num(1 * WorldUnit)

\* C18 witness off the axes: a sphere not at the test position sampled at a
\* point of an overlapped cell, at a distance that is no whole unit.
C18_OffAxis ==
    /\ SingleSphere
    /\ world.entities[1] # TestSphere
    /\ worldCall.op = "sample"
    /\ CellOverlapsSphere(worldCall.point)
    /\ worldCall.point[1] # world.entities[1].transform.position[1]
    /\ worldCall.point[3] # world.entities[1].transform.position[3]
    /\ worldCall.result.distance.kind = "num"
    /\ worldCall.result.distance.v % WorldUnit # 0

\* C19 helpers: the last raymarch call, its samples, and the ray of
\* test-raymarch.ts.
MarchSamples == worldCall.result.samples
BelowThreshold(k) == NumLess(MarchSamples[k].sample.distance, Num(1))
TestRay == [origin |-> <<0, 1 * WorldUnit, 6 * WorldUnit>>, direction |-> <<0, 0, -1>>]
HoldsTestSphere == \E j \in DOMAIN world.entities : world.entities[j] = TestSphere

\* The loop of C19 alone: the first sample is at t = 0, each next one at t
\* advanced by the distance sampled before it; a hit is the first sample below
\* the threshold, among at most maxSteps, and reports that sample's t and
\* entity index; a miss has no sample below the threshold and ends after
\* maxSteps samples or when the advanced t exceeds 100.
C19_LoopContract ==
    worldCall.op = "raymarch" =>
        /\ Len(MarchSamples) \in 1 .. worldCall.maxSteps
        /\ MarchSamples[1].t = 0
        /\ \A k \in DOMAIN MarchSamples :
               /\ MarchSamples[k].position =
                      VAdd(worldCall.ray.origin, VMul(worldCall.ray.direction, MarchSamples[k].t))
               /\ MarchSamples[k].sample = WorldSample(world, MarchSamples[k].position)
               /\ k < Len(MarchSamples) =>
                      /\ ~BelowThreshold(k)
                      /\ MarchSamples[k].sample.distance.kind = "num"
                      /\ MarchSamples[k + 1].t = MarchSamples[k].t + MarchSamples[k].sample.distance.v
                      /\ MarchSamples[k + 1].t <= 100 * WorldUnit
        /\ LET last == MarchSamples[Len(MarchSamples)]
           IN  IF worldCall.result.hit
               THEN /\ BelowThreshold(Len(MarchSamples))
                    /\ worldCall.result.distance = last.t
                    /\ worldCall.result.entityIndex = last.sample.entityIndex
               ELSE /\ ~BelowThreshold(Len(MarchSamples))
                    /\ \/ Len(MarchSamples) = worldCall.maxSteps
                       \/ NumLess(Num(100 * WorldUnit), NumAdd(Num(last.t), last.sample.distance))

\* C19: raymarch samples at t = 0 and then at t advanced by each sampled
\* distance, hits at the first of at most maxSteps samples below 0.01 with the
\* accumulated t and the sampled entity index, and misses when t exceeds 100
\* or maxSteps samples pass; and the ray from (0,1,6) toward (0,0,-1) at the
\* radius-1 sphere at (0,1,0) hits at distance 5.
C19_RaymarchHitsTestSphere ==
    /\ C19_LoopContract
    /\ ( /\ worldCall.op = "raymarch"
         /\ worldCall.ray = TestRay
         /\ worldCall.maxSteps = DEFAULT_MAX_STEPS
         /\ HoldsTestSphere )
       => (worldCall.result.hit /\ worldCall.result.distance = 5 * WorldUnit)

\* The same ray in the scene of test-raymarch.ts, which holds the ground plane
\* beside the sphere, hits the sphere at distance 5.
C19_TestSceneHit ==
    ( /\ worldCall.op = "raymarch"
      /\ worldCall.ray = TestRay
      /\ worldCall.maxSteps = DEFAULT_MAX_STEPS
      /\ world.entities = <<TestSphere, Ground>> )
    => /\ worldCall.result.hit
       /\ worldCall.result.distance = 5 * WorldUnit
       /\ worldCall.result.entityIndex = 0

\* C20 helpers: both styles have been queried, with parameters that differ in
\* the style only.
BothStylesQueried ==
    /\ dbCalls["round"] # None
    /\ dbCalls["angular"] # None
    /\ dbCalls["round"][1].params.targetCoverage = dbCalls["angular"][1].params.targetCoverage
    /\ dbCalls["round"][1].params.targetRoundness = dbCalls["angular"][1].params.targetRoundness
    /\ dbCalls["round"][1].params.targetComplexity = dbCalls["angular"][1].params.targetComplexity

\* C20: for any loaded glyph set and any coverage target, the record queryBest
\* returns with style 'round' is at least as round as the record it returns
\* with style 'angular' for the same target and otherwise equal parameters.
C20_RoundAtLeastAsRoundAsAngular ==
    BothStylesQueried =>
        dbCalls["round"][1].record.roundness >= dbCalls["angular"][1].record.roundness

\* C20 witness: the two queries of one target returned different records, the
\* round one strictly rounder, out of a window of three candidates or more.
C20_Witness ==
    /\ BothStylesQueried
    /\ Len(glyphs) >= 3
    /\ dbCalls["round"][1].record.codePoint # dbCalls["angular"][1].record.codePoint
    /\ dbCalls["round"][1].record.roundness > dbCalls["angular"][1].record.roundness

\* C20 witness of a trade: the angular query gave up coverage for a less round
\* record, taking one whose coverage is farther from the target than the
\* round query's.
C20_CoverageTraded ==
    /\ BothStylesQueried
    /\ Abs(dbCalls["angular"][1].record.normalizedCoverage - dbCalls["angular"][1].params.targetCoverage)
         > Abs(dbCalls["round"][1].record.normalizedCoverage - dbCalls["round"][1].params.targetCoverage)

\* C21 helpers: the normalized coverages of the loaded set, and the last call
\* made with a coverage target and nothing else.
LoadedCoverages == { glyphs[i].normalizedCoverage : i \in DOMAIN glyphs }
CoverageOnlyCall(target) ==
    /\ dbCalls["none"] # None
    /\ dbCalls["none"][1].params.targetCoverage = target
    /\ dbCalls["none"][1].params.targetRoundness = None
    /\ dbCalls["none"][1].params.targetComplexity = None

\* C21: on a loaded glyph set with at least two distinct coverage values,
\* queryBest with only targetCoverage 0.0 returns a record of the smallest
\* normalized coverage of the set, and with only targetCoverage 1.0 a record
\* of the largest.
C21_ExtremeCoverageTargets ==
    Cardinality(LoadedCoverages) >= 2 =>
        /\ CoverageOnlyCall(0) =>
               \A c \in LoadedCoverages : dbCalls["none"][1].record.normalizedCoverage <= c
        /\ CoverageOnlyCall(1000) =>
               \A c \in LoadedCoverages : dbCalls["none"][1].record.normalizedCoverage >= c

\* C21 witness: target 1.0 on a set whose window [0.9, 1.1] holds two records,
\* the densest being the second of them.
C21_Witness ==
    /\ Cardinality(LoadedCoverages) >= 2
    /\ CoverageOnlyCall(1000)
    /\ Cardinality({ i \in DOMAIN glyphs : glyphs[i].normalizedCoverage >= 900 }) >= 2
    /\ dbCalls["none"][1].record.normalizedCoverage = 1000

\* C21 witness for target 0.0: two records share the smallest coverage and a
\* third is denser.
C21_SparseEnd ==
    /\ CoverageOnlyCall(0)
    /\ Cardinality({ i \in DOMAIN glyphs : glyphs[i].normalizedCoverage = 0 }) >= 2
    /\ Cardinality(LoadedCoverages) >= 2
    /\ dbCalls["none"][1].record.normalizedCoverage = 0

\* The record the cache holds for pixel p after the frame is the one a ray
\* created from camera pose cam through p stores.
StoredFromPose(cam, p) ==
    LET r == Raymarch(CreateRay(cam, p[1], p[2], frameLog.width, frameLog.height),
                      scene.entities)
    IN  /\ TCIsValid(temporal, p[1], p[2])
        /\ TCGetEntityIndex(temporal, p[1], p[2]) = (IF r.hit THEN r.entityIndex ELSE -1)
        /\ r.hit => TCGetHitPos(temporal, p[1], p[2]) = r.position

\* The camera controller moved the camera of the last frame by more than the
\* threshold away from the pose recorded at the end of the frame before.
ControllerMovedCamera ==
    \/ Abs(scene.camera.position - frameLog.temporalBefore.prevCameraPos) > CAMERA_THRESHOLD
    \/ Abs(scene.camera.rotation - frameLog.temporalBefore.prevCameraRot) > CAMERA_THRESHOLD

\* C22: in every tick the camera controller's update comes first: the
\* cameraChanged check sees the updated pose (a move beyond the threshold leaves
\* no pixel to reuse), every ray of the frame is created from that pose, and the
\* pose is not modified until updateCamera records it at the end of the frame,
\* so the pose recorded for the next comparison is the pose the rays used.
C22_RecordedPoseIsPoseOfTheRays ==
    frameLog.frame >= 1 =>
        /\ frameLog.camera = scene.camera
        /\ temporal.prevCameraPos = scene.camera.position
        /\ temporal.prevCameraRot = scene.camera.rotation
        /\ \A p \in frameLog.traced : StoredFromPose(scene.camera, p)
        /\ ControllerMovedCamera =>
               /\ frameLog.reshaded = {}
               /\ frameLog.traced \cup frameLog.dropped = FramePixels

\* A frame after the first in which the controller moved the camera, pixels
\* were traced, and a ray hit an entity it would have missed from the old pose.
C22_Witness ==
    /\ frameLog.frame >= 2
    /\ loopOptions.useTemporalReuse
    /\ ControllerMovedCamera
    /\ \E p \in frameLog.traced :
           /\ StoredFromPose(scene.camera, p)
           /\ ~StoredFromPose([ position |-> frameLog.temporalBefore.prevCameraPos,
                                rotation |-> frameLog.temporalBefore.prevCameraRot ], p)

\* Steps of the tile-parallel mode, told apart by the queue they consume: a
\* worker's message handler takes the oldest request of its inbox, a 'message'
\* event of the main thread takes the oldest result of a worker's outbox.
WorkerStep(w) ==
    /\ tileFrame' = tileFrame
    /\ workerInbox[w] # <<>>
    /\ workerInbox'[w] = Tail(workerInbox[w])
MainMessageEvent(w) ==
    /\ tileFrame' = tileFrame
    /\ workerOutbox[w] # <<>>
    /\ workerOutbox'[w] = Tail(workerOutbox[w])
TileWriteStep(w) == MainMessageEvent(w) /\ tileListeners[w] # <<>>

\* A request of some frame has not yet been rendered by its worker.
TilesStillRendering == \E w \in Workers : workerInbox[w] # <<>>

\* The cells of the message's tile are in the buffer fb.
TileCellsIn(msg, fb) ==
    \A i \in 1 .. (msg.tile.width * msg.tile.height) :
        LET got == FBGet(fb, msg.tile.x + ((i - 1) % msg.tile.width),
                         msg.tile.y + ((i - 1) \div msg.tile.width))
        IN  /\ got.char = msg.cells[i].char
            /\ got.r = msg.cells[i].r /\ got.g = msg.cells[i].g /\ got.b = msg.cells[i].b

\* C23 as stated: a worker never writes the output buffer, only the main
\* thread does, and no tile's result is written into the buffer while a tile
\* dispatched for the frame has not completed.
C23_WrittenAfterAllTilesComplete ==
    [][ /\ \A w \in Workers : WorkerStep(w) => frameBuffer' = frameBuffer
        /\ \A w \in Workers : TileWriteStep(w) => ~TilesStillRendering ]_vars

\* C23 amended: a worker never writes the output buffer; the buffer changes
\* only in a 'message' event of the main thread (or when the main thread makes
\* a new buffer at start), which writes the cells of the result received; and
\* no result is written before all tiles of its frame have been dispatched.
C23_WrittenByMainAfterDispatch ==
    [][ /\ \A w \in Workers : WorkerStep(w) => frameBuffer' = frameBuffer
        /\ frameBuffer' # frameBuffer =>
               \/ \E w \in Workers : MainMessageEvent(w)
               \/ tileFrame' = 0
        /\ \A w \in Workers : TileWriteStep(w) =>
               /\ Head(workerOutbox[w]).scene.time \in 1 .. tileFrame
               /\ tilePhase # "idle"
               /\ TileCellsIn(Head(workerOutbox[w]), frameBuffer') ]_vars

\* A result of the current frame lies in a worker's outbox with a listener
\* waiting for it, while another tile of the frame is still to be rendered and
\* a tile of the frame has already been written.
C23_Witness ==
    /\ tilePhase = "rendering"
    /\ tileWritten # {}
    /\ TilesStillRendering
    /\ \E w \in Workers :
           /\ workerOutbox[w] # <<>>
           /\ tileListeners[w] # <<>>
           /\ Head(workerOutbox[w]).scene.time = tileFrame

\* The frame the single-threaded loop renders on its full-trace path (no
\* temporal reuse, no adaptive quality) from the scene snapshot sc with the
\* glyph set gs and a new glyph cache.
FullTraceFrame(sc, gs) ==
    RenderFrameSingleThread(NewFrameBuffer(RenderWidth, RenderHeight),
                            NewTemporalCache(RenderWidth, RenderHeight),
                            NewGlyphCache, sc,
                            [useTemporalReuse |-> FALSE, useAdaptiveQuality |-> FALSE],
                            gs, 0).fb

\* The first tile result of a pool: every worker's glyph cache was new (or
\* absent) when the tile was rendered.
FirstTileResult ==
    /\ workerPool # None
    /\ workerPool[1].last # None
    /\ workerPool[1].messages = 1

\* Cell i of the worker's last tile result is the cell of the same pixel in
\* the buffer fb (as frameBuffer.set stores it).
WorkerCellMatches(r, i, fb) ==
    LET got == FBGet(fb, r.tile.x + ((i - 1) % r.tile.width),
                     r.tile.y + ((i - 1) \div r.tile.width))
    IN  /\ r.cells[i].char = got.char
        /\ r.cells[i].r = got.r /\ r.cells[i].g = got.g /\ r.cells[i].b = got.b
        /\ ToFloat32(BrightnessArg(r.cells[i].brightness)) = got.brightness

\* C24: for the same scene snapshot, output size and pixel, the cell a worker's
\* renderTile produces (character, colour, brightness) is the cell the
\* single-threaded full-trace path writes.
C24_WorkerCellEqualsFullTrace ==
    FirstTileResult =>
        LET r == workerPool[1].last[1]
            gs == IF workerPool[1].caches[r.worker] = None THEN <<>> ELSE WorkerGlyphs
            fb == FullTraceFrame(SceneAfterTicks(scene, baseIntensities, r.frame), gs)
        IN  \A i \in DOMAIN r.cells : WorkerCellMatches(r, i, fb)

\* C25: every tile result written into the output buffer during frame N was
\* rendered by a worker from the scene snapshot dispatched in frame N, for a
\* tile of that frame, and its cells go into that tile's pixels; no result of
\* an earlier frame is written during a later frame.
C25_WrittenResultsBelongToFrame ==
    [][ \A w \in Workers : TileWriteStep(w) =>
            LET msg == Head(workerOutbox[w])
                tiles == GenerateTiles(frameBuffer.width, frameBuffer.height)
            IN  /\ msg.scene = SceneAtFrame(tileFrame)
                /\ \E i \in DOMAIN tiles : msg.tile = tiles[i]
                /\ msg.cells = RenderTile(msg.tile, SceneAtFrame(tileFrame),
                                          frameBuffer.width, frameBuffer.height).cells
                /\ TileCellsIn(msg, frameBuffer') ]_vars

\* C26: temporal reuse is a pure optimisation: after every frame the output
\* buffer of the loop with temporal reuse enabled is the buffer the loop with
\* temporal reuse disabled holds after the same frames of the same scene
\* (moving or stationary entities, flickering lights, animated materials).
C26_ReuseLeavesOutputUnchanged ==
    (frameLog.frame >= 1 /\ loopOptions.useTemporalReuse /\ ~loopOptions.useAdaptiveQuality)
        => FBStored(frameBuffer) = FBStored(frameLog.plain.fb)

\* The pixels of the last frame that took the reuse branch: neither traced
\* anew nor dropped by the deadline (left as they were, or re-shaded).
ReusedPixels == FramePixels \ (frameLog.traced \cup frameLog.dropped)

\* C28: whenever a pixel is reused from the temporal cache, every component of
\* the current camera pose is within the threshold (0.001) of the pose under
\* which the pixel's record was stored, whatever the camera did in between.
\* (Stated for the loop without adaptive quality, where every frame has the
\* cache's resolution and no pixel is dropped.)
C28_ReusedNearStoredPose ==
    (frameLog.frame >= 1 /\ ~loopOptions.useAdaptiveQuality) =>
        \A p \in ReusedPixels :
            LET stored == frameLog.storedPose[p[2] * temporal.width + p[1]]
            IN  /\ Abs(scene.camera.position - stored.position) <= CAMERA_THRESHOLD
                /\ Abs(scene.camera.rotation - stored.rotation) <= CAMERA_THRESHOLD

\* C27: for every size of the full buffer and every scale below 1 that adjust
\* reaches, upscale reads only source cells inside the small buffer:
\* floor(x * scale) is below the small buffer's width max(1, floor(W * scale))
\* for every column x, and likewise for every row y.
C27_UpscaleReadsInsideSmallBuffer ==
    aqCall.op = "upscale" =>
        /\ \A x \in 0 .. (frameBuffer.width - 1) :
               (x * adaptive.currentScale) \div 100 < smallBuffer[1].width
        /\ \A y \in 0 .. (frameBuffer.height - 1) :
               (y * adaptive.currentScale) \div 100 < smallBuffer[1].height

\* C29: for every query, values outside [0, 1] included, select computes a key
\* in 0 .. CACHE_SIZE - 1 (0 .. 18431) and returns a glyph record obtained from
\* the database: a slot counts as a hit only if an earlier select stored a
\* record in it.
C29_SelectReturnsDatabaseRecord ==
    \A i \in 1 .. Len(gcLog) :
        /\ gcLog[i].key \in 0 .. (CACHE_SIZE - 1)
        /\ gcLog[i].result \in DOMAIN glyphs
        /\ ~gcLog[i].miss =>
               \E j \in 1 .. (i - 1) : gcLog[j].key = gcLog[i].key /\ gcLog[j].miss

\* C30: when no loaded record has a normalized coverage within 0.1 of the
\* target, queryBest returns a record whose normalized coverage is nearest to
\* the target among all loaded records.
C30_EmptyWindowReturnsNearest ==
    \A st \in DOMAIN dbCalls :
        dbCalls[st] # None =>
            LET target == dbCalls[st][1].params.targetCoverage
                got == dbCalls[st][1].record.normalizedCoverage
            IN  (\A c \in LoadedCoverages : Abs(c - target) > 100) =>
                    \A c \in LoadedCoverages : Abs(got - target) <= Abs(c - target)

(***************************************************************************)
(* C31: light range                                                        *)
(***************************************************************************)
LightingCalled == lightCall.op = "computeLighting"

\* computeLighting at the hit point of the last call, over other lights
LightingOf(lights) ==
    ComputeLightingFull(lightCall.hitPos, lightCall.normal, lightCall.material[1], lights,
                        scene.environment.ambientLight)

WithoutLight(lights, i) == SubSeq(lights, 1, i - 1) \o SubSeq(lights, i + 1, Len(lights))

\* light i is a point light with a range, and the hit point of the last call
\* is farther from it than the range
BeyondRange(i) ==
    /\ scene.lights[i].type = "point"
    /\ scene.lights[i].position # None
    /\ scene.lights[i].range # None
    /\ LengthT(VSub(scene.lights[i].position[1], lightCall.hitPos)) > scene.lights[i].range[1]

\* the surface at the hit point faces light i, which shines
FacesLight(i) ==
    /\ scene.lights[i].intensity > 0
    /\ VDot(lightCall.normal, VSub(scene.lights[i].position[1], lightCall.hitPos)) > 0

\* C31 as stated: a point light with a range contributes nothing to a hit
\* point beyond the range, with or without a falloff exponent: the result of
\* computeLighting is the result without that light.
C31_NothingBeyondRange ==
    LightingCalled =>
        \A i \in DOMAIN scene.lights :
            BeyondRange(i) => lightCall.result[1] = LightingOf(WithoutLight(scene.lights, i))

\* C31, amended: a point light with a range and no falloff exponent
\* contributes nothing to a hit point beyond the range; a point light with a
\* falloff exponent contributes as the same light without a range does, at
\* every distance.
C31_NothingBeyondRangeWithoutFalloff ==
    LightingCalled =>
        \A i \in DOMAIN scene.lights :
            /\ (BeyondRange(i) /\ scene.lights[i].falloff = None)
                   => lightCall.result[1] = LightingOf(WithoutLight(scene.lights, i))
            /\ (scene.lights[i].type = "point" /\ scene.lights[i].falloff # None)
                   => lightCall.result[1]
                          = LightingOf([scene.lights EXCEPT ![i].range = None])

\* computeLighting was called on a surface that faces a shining point light
\* with a range and no falloff exponent, beyond the range.
C31_Witness ==
    /\ LightingCalled
    /\ \E i \in DOMAIN scene.lights :
           BeyondRange(i) /\ scene.lights[i].falloff = None /\ FacesLight(i)

(***************************************************************************)
(* C32: the lists of the SpatialGrid after a build                         *)
(***************************************************************************)
GridIndices == { i - 1 : i \in DOMAIN world.entities }
InfiniteIndices == { i \in GridIndices : world.entities[i + 1].geometry.type \in {"plane", "sdf"} }
FiniteIndices ==
    { i \in GridIndices : world.entities[i + 1].geometry.type \in {"sphere", "box", "cylinder"} }

\* the number of places of a list that hold i
Occurrences(list, i) == Cardinality({ k \in DOMAIN list : list[k] = i })

\* the cells around the origin, far enough to hold every box of the model
CellRange == (-3) .. 3
NearCells == { <<cx, cy, cz>> : cx, cy, cz \in CellRange }

\* the cell c, the cube [c * cellSize, (c + 1) * cellSize) on every axis,
\* overlaps the bounding box of entity i
CellOverlapsBox(c, i) ==
    LET aabb == ComputeAABB(world.entities[i + 1])
    IN  \A a \in 1 .. 3 :
            c[a] * CELL_SIZE <= aabb.max[a] /\ (c[a] + 1) * CELL_SIZE > aabb.min[a]

\* C32: after every construction or rebuild no cell list holds an index
\* twice; a plane or generic field is in no cell list and once in the
\* always-evaluated list; a sphere, box or cylinder is not in the
\* always-evaluated list and is in the list of every cell its bounding box
\* overlaps; every index in a list belongs to an entity of this build that
\* is there for one of these two reasons.
C32_GridListsAfterBuild ==
    LET cells == world.grid.cells
        globals == world.grid.globalIndices
    IN  /\ \A h \in DOMAIN cells : \A i \in GridIndices : Occurrences(cells[h], i) <= 1
        /\ \A i \in InfiniteIndices :
               /\ Occurrences(globals, i) = 1
               /\ \A h \in DOMAIN cells : Occurrences(cells[h], i) = 0
        /\ \A i \in FiniteIndices :
               /\ Occurrences(globals, i) = 0
               /\ \A c \in NearCells :
                      CellOverlapsBox(c, i) =>
                          /\ HashCell(c[1], c[2], c[3]) \in DOMAIN cells
                          /\ Occurrences(cells[HashCell(c[1], c[2], c[3])], i) = 1
        /\ \A k \in DOMAIN globals : globals[k] \in InfiniteIndices
        /\ \A h \in DOMAIN cells : \A k \in DOMAIN cells[h] :
               /\ cells[h][k] \in FiniteIndices
               /\ \E c \in NearCells :
                      CellOverlapsBox(c, cells[h][k]) /\ h = HashCell(c[1], c[2], c[3])

\* The grid was rebuilt over other entities than the build before held, and
\* now holds a finite entity whose box spans several cells beside an
\* infinite one.
C32_Witness ==
    /\ worldCall.op = "rebuild" /\ worldCall.stale
    /\ InfiniteIndices # {}
    /\ \E i \in FiniteIndices :
           Cardinality({ c \in NearCells : CellOverlapsBox(c, i) }) > 1

(***************************************************************************)
(* C35: getCandidates                                                      *)
(***************************************************************************)
\* the cell that contains the point of the last getCandidates call
ProbedCell ==
    << worldCall.point[1] \div CELL_SIZE, worldCall.point[2] \div CELL_SIZE,
       worldCall.point[3] \div CELL_SIZE >>

\* the finite entities whose box overlaps the cell c
RegisteredFor(c) == { i \in FiniteIndices : CellOverlapsBox(c, i) }

\* C35: getCandidates(point) returns the always-evaluated indices followed
\* by the indices registered for the one cell that contains the point, those
\* of no other cell, and leaves the grid as the last build made it.
C35_CandidatesOfOneCell ==
    worldCall.op = "getCandidates" =>
        /\ worldCall.result = Ascending(InfiniteIndices) \o Ascending(RegisteredFor(ProbedCell))
        /\ world.grid = GridRebuild(world.entities)

(***************************************************************************)
(* C33: the grid is rebuilt between the animation step and the samples     *)
(***************************************************************************)
TickLog == worldCall.log
Places(ev) == { k \in DOMAIN TickLog : TickLog[k].ev = ev }

\* C33: in every tick the grid the frame samples is a complete build over
\* the transforms of this tick, and the sample is the sample of a world newly
\* built over them; when the animation step changed a transform the grid was
\* rebuilt once, after every entity was moved and before the first sample.
C33_GridRebuiltBeforeSampling ==
    worldCall.op = "tick" =>
        /\ worldCall.observed = GridRebuild(world.entities)
        /\ worldCall.result = WorldSample(NewWorld(world.entities), worldCall.point)
        /\ worldCall.transformsChanged =>
               /\ Cardinality(Places("rebuild")) = 1
               /\ \A r \in Places("rebuild") :
                      /\ \A k \in Places("move") : k < r
                      /\ \A k \in Places("sample") : r < k

\* A tick moved entities so that the grid changed, and the frame then
\* sampled the world.
C33_Witness ==
    /\ worldCall.op = "tick"
    /\ worldCall.transformsChanged /\ worldCall.gridChanged
    /\ Cardinality(Places("move")) >= 1
    /\ worldCall.result.entityIndex >= 0

(***************************************************************************)
(* C36: queryBest returns the first candidate of minimal score             *)
(***************************************************************************)
\* the places of the loaded records inside the coverage window of a call
CoverageWindow(params) ==
    { i \in DOMAIN glyphs :
        /\ glyphs[i].normalizedCoverage >= params.targetCoverage - 100
        /\ glyphs[i].normalizedCoverage <= params.targetCoverage + 100 }

\* place i holds a candidate of minimal score, the earliest of that score
FirstOfMinimalScore(i, params) ==
    /\ i \in CoverageWindow(params)
    /\ \A j \in CoverageWindow(params) :
           /\ QBScore(glyphs[i], params) <= QBScore(glyphs[j], params)
           /\ QBScore(glyphs[i], params) = QBScore(glyphs[j], params) => i <= j

DirectCalls == { dbCalls[st][1] : st \in { s \in DOMAIN dbCalls : dbCalls[s] # None } }

\* C36: every queryBest call whose coverage window holds a record returned
\* the record of the window with the minimal score, the earliest in the
\* sorted order among those of that score, whatever calls were made before.
C36_FirstOfMinimalScore ==
    \A call \in DirectCalls :
        CoverageWindow(call.params) # {} =>
            \E i \in DOMAIN glyphs :
                FirstOfMinimalScore(i, call.params) /\ call.record = glyphs[i]

\* A call was answered from a window of several candidates in which the
\* minimal score is shared by two of them, after another call was made.
C36_Witness ==
    /\ Cardinality(DirectCalls) >= 2
    /\ \E call \in DirectCalls :
           \E i, j \in CoverageWindow(call.params) :
               /\ i < j
               /\ FirstOfMinimalScore(i, call.params)
               /\ QBScore(glyphs[i], call.params) = QBScore(glyphs[j], call.params)
               /\ call.record = glyphs[i]

(***************************************************************************)
(* C34: World.sample                                                       *)
(***************************************************************************)
SampleCalled == worldCall.op = "sample"
SampleCandidates == GetCandidates(world.grid, worldCall.point)

\* the scaled signed distance of the entity at place k of the candidates
CandidateDistance(k) ==
    LET entity == world.entities[SampleCandidates[k] + 1]
        scale == entity.transform.scale
    IN  NumTimes(EvaluateSDF(WorldToLocal(worldCall.point, entity.transform), entity.geometry),
                 Min3(scale[1], scale[2], scale[3]))

\* the sample returned the candidate at place k: no candidate of S is
\* nearer, and none of the same distance comes earlier
ReturnedNearestOf(S, k) ==
    /\ worldCall.result.entityIndex = SampleCandidates[k]
    /\ worldCall.result.entityId = world.entities[SampleCandidates[k] + 1].id
    /\ worldCall.result.distance = CandidateDistance(k)
    /\ \A j \in S :
           /\ ~NumLess(CandidateDistance(j), CandidateDistance(k))
           /\ CandidateDistance(j) = CandidateDistance(k) => k <= j

ReturnedBackground ==
    worldCall.result.distance = Infinity /\ worldCall.result.entityIndex = -1

NearCandidates == { k \in DOMAIN SampleCandidates : NumLess(CandidateDistance(k), Infinity) }

FlickerCalls == frameCount

\* base * (1 + sin(time * speed) * amplitude) for light i at the time of
\* the last call
ModulatedFromBase(i) ==
    LET fl == scene.lights[i].flicker[1]
    IN  (lightCall.initial[i] * (1000 + (SinQuarter(scene.time * fl.speed) * fl.amplitude) \div 1000))
            \div 1000

\* C37: once updateLightFlicker has been called, the base recorded for a
\* light with flicker is its intensity before the first call and its
\* intensity is that base modulated at the time of the last call; a light
\* without flicker has no recorded base and the intensity it started with.
C37_IntensityFromBaseAndTime ==
    FlickerCalls >= 1 =>
        \A i \in DOMAIN scene.lights :
            IF scene.lights[i].flicker # None
            THEN /\ i \in DOMAIN baseIntensities
                 /\ baseIntensities[i] = lightCall.initial[i]
                 /\ scene.lights[i].intensity = ModulatedFromBase(i)
            ELSE /\ i \notin DOMAIN baseIntensities
                 /\ scene.lights[i].intensity = lightCall.initial[i]

\* The last of several updateLightFlicker calls found a light whose
\* intensity the call before had modulated away from the base, and
\* modulated it again.
C37_Witness ==
    /\ lightCall.op = "updateLightFlicker"
    /\ FlickerCalls >= 2
    /\ \E i \in DOMAIN scene.lights :
           /\ scene.lights[i].flicker # None
           /\ lightCall.before[i] # lightCall.initial[i]
           /\ scene.lights[i].intensity # lightCall.before[i]
           /\ scene.lights[i].intensity # lightCall.initial[i]

(***************************************************************************)
(* C38: the range of computeLighting's result                              *)
(***************************************************************************)
\* the lights of the scene that are not area lights, in order
RECURSIVE NonAreaLights(_)
NonAreaLights(lights) ==
    IF lights = <<>> THEN <<>>
    ELSE (IF Head(lights).type = "area" THEN <<>> ELSE <<Head(lights)>>)
         \o NonAreaLights(Tail(lights))

\* the result of the last call before the final clamps
UnclampedResult ==
    ComputeLightingUnclamped(lightCall.hitPos, lightCall.normal, lightCall.material[1],
                             scene.lights, scene.environment.ambientLight)

RaymarchCalled == worldCall.op = "raymarch"

\* The number of World.sample evaluations of the last raymarch: those of the
\* loop and those of computeNormal.
LoopSampleCount == Len(worldCall.result.samples)
NormalSampleCount == Len(worldCall.result.normalSamples)

\* C39: a raymarch returns (the call has a result, hit or miss) after at most
\* maxSteps evaluations of World.sample on a miss and at most maxSteps + 6 on
\* a hit, whatever distances the world returns; the six samples of the normal
\* are taken exactly when a hit is reported.
C39_SampleCountBounded ==
    RaymarchCalled
        => /\ worldCall.result.hit \in BOOLEAN
           /\ LoopSampleCount <= worldCall.maxSteps
           /\ IF worldCall.result.hit
              THEN /\ NormalSampleCount = 6
                   /\ LoopSampleCount + NormalSampleCount <= worldCall.maxSteps + 6
              ELSE NormalSampleCount = 0

\* A miss that used every one of its maxSteps samples on a world that never
\* comes close.
MissAfterAllPasses ==
    /\ RaymarchCalled
    /\ ~worldCall.result.hit
    /\ worldCall.maxSteps > 1
    /\ LoopSampleCount = worldCall.maxSteps
    /\ \A k \in 1 .. LoopSampleCount : worldCall.result.samples[k].sample.distance # Infinity

\* A miss on a world whose only distance is +Infinity.
InfiniteMiss ==
    /\ RaymarchCalled
    /\ ~worldCall.result.hit
    /\ LoopSampleCount = 1
    /\ worldCall.result.samples[1].sample.distance = Infinity

\* A hit reported by the last pass allowed, after passes that did not hit,
\* with its six samples of the normal: maxSteps + 6 samples in all.
C39_Witness ==
    /\ RaymarchCalled
    /\ worldCall.result.hit
    /\ worldCall.maxSteps > 1
    /\ LoopSampleCount = worldCall.maxSteps
    /\ LoopSampleCount + NormalSampleCount = worldCall.maxSteps + 6

(***************************************************************************)
(* C40: the movement flags and the keys held.                              *)
(***************************************************************************)
\* The two keys of each movement flag.
MovementKeys ==
    [ forward |-> {"KeyW", "ArrowUp"}, backward |-> {"KeyS", "ArrowDown"},
      left |-> {"KeyA", "ArrowLeft"}, right |-> {"KeyD", "ArrowRight"} ]

FlagFollowsKeys(flag) == inputState[flag] <=> (MovementKeys[flag] \cap keysHeld # {})

\* C40: after any sequence of keydown and keyup events each movement flag is
\* true exactly when at least one of its two keys is held down.
C40_FlagsFollowHeldKeys == \A flag \in DOMAIN MovementKeys : FlagFollowsKeys(flag)

\* What the flags do keep: a flag is never true with neither of its keys
\* held; it can only be false while one of them is held.
FlagWrongOnlyWhileHeld ==
    \A flag \in DOMAIN MovementKeys :
        ~FlagFollowsKeys(flag) => (~inputState[flag] /\ MovementKeys[flag] \cap keysHeld # {})

====
